---- MODULE Spec2Model ----
(***************************************************************************)
(* A model of the TodoApp persistence/domain core: the TodoItem entity     *)
(* (src/domain/models.py), the JSON and XML file repositories              *)
(* (src/infrastructure/persistence) and the wall clock they read.          *)
(*                                                                         *)
(* Text is modelled by its shape: a string is the number of leading        *)
(* whitespace characters, of characters from the first to the last         *)
(* non-whitespace one, and of trailing whitespace characters.  An optional *)
(* value is a set with at most one element ({} is Python's None).          *)
(* Timestamps are integers read from the variable clock.                   *)
(***************************************************************************)
EXTENDS Integers, Sequences, FiniteSets, TLC

VARIABLES
    clock,   \* the wall clock, what datetime.now() returns
    item,    \* the TodoItem a caller holds in memory ({} when none)
    kind,    \* the repository implementation in use: "json" or "xml"
    file,    \* the storage file behind the repository path
    insts,   \* the repository instances constructed over that path
    made,    \* the ids of the TodoItems constructed so far
    pending, \* the repository writes that have loaded the file and not yet written it
    twin,    \* the storage file of a second repository, of the other kind
    cli,     \* the command-line interface: where its main loop stands
    last     \* the last call made: its name, arguments and outcome

vars == <<clock, item, kind, file, insts, made, pending, twin, cli, last>>

\* ------------------------------------------------------------------ bounds
MaxClock == 1
NumIds == 2
NumInsts == 2
MaxStored == 1

\* ------------------------------------------------------- program constants
TitleMinLength == 1
TitleMaxLength == 200
DescriptionMaxLength == 1000

\* ------------------------------------------------------------ basic values
None == {}
Some(v) == {v}
Get(o) == CHOOSE v \in o : TRUE

Times == 0..MaxClock
IDs == 1..NumIds
InstIds == 1..NumInsts

Str(lead, core, trail) == [lead |-> lead, core |-> core, trail |-> trail]
StrLen(s) == s.lead + s.core + s.trail
Text(n) == Str(0, n, 0)
Blank(n) == Str(n, 0, 0)

\* str.strip(): whitespace is removed from both ends
strip(s) == Str(0, s.core, 0)

\* ------------------------------------------------------------ the entity
\* validate_title: raises on an empty or whitespace-only value
validate_title_raises(v) == StrLen(v) = 0 \/ StrLen(strip(v)) = 0

\* validate_title: the value it returns
validate_title(v) == strip(v)

\* (variant of validate_due_date that also rejects a due date equal to now)
validate_due_date_raises_at_now(v, now) == v # None /\ Get(v) <= now

\* validate_due_date: raises when the value is earlier than datetime.now()
validate_due_date_raises(v, now) == v # None /\ Get(v) < now

\* Field(min_length=1, max_length=200) is checked on the value as given; the
\* field validator runs only when these constraints pass.
title_errors(v) ==
    IF StrLen(v) < TitleMinLength THEN {"title: string_too_short"}
    ELSE IF StrLen(v) > TitleMaxLength THEN {"title: string_too_long"}
    ELSE IF validate_title_raises(v) THEN {"Title cannot be empty or whitespace only"}
    ELSE {}

\* Field(default=None, max_length=1000)
description_errors(v) ==
    IF v # None /\ StrLen(Get(v)) > DescriptionMaxLength
    THEN {"description: string_too_long"} ELSE {}

due_date_errors(v, now) ==
    IF validate_due_date_raises(v, now) THEN {"Due date cannot be in the past"} ELSE {}

\* (variant of TodoItem without the override of updated_at in __init__: an
\* updated_at that is not supplied comes from its own default factory)
TodoItem_own_defaults(data, uuid, tV, tC) ==
    LET errs == title_errors(data.title) \cup description_errors(data.description)
                  \cup due_date_errors(data.due_date, tV)
        self == [id          |-> IF data.id = None THEN uuid ELSE Get(data.id),
                 title       |-> validate_title(data.title),
                 description |-> data.description,
                 due_date    |-> data.due_date,
                 completed   |-> IF data.completed = None THEN FALSE ELSE Get(data.completed),
                 created_at  |-> IF data.created_at = None THEN tC ELSE Get(data.created_at),
                 updated_at  |-> IF data.updated_at = None THEN tC ELSE Get(data.updated_at)]
    IN  [errors |-> errs, item |-> IF errs = {} THEN Some(self) ELSE None]

\* TodoItem(**data): every field is validated and every violation collected.
\* uuid is what uuid4() returns, tV the clock read by validate_due_date, tC the
\* clock read by the created_at default factory.
TodoItem(data, uuid, tV, tC) ==
    LET errs == title_errors(data.title) \cup description_errors(data.description)
                  \cup due_date_errors(data.due_date, tV)
        created == IF data.created_at = None THEN tC ELSE Get(data.created_at)
        self == [id          |-> IF data.id = None THEN uuid ELSE Get(data.id),
                 title       |-> validate_title(data.title),
                 description |-> data.description,
                 due_date    |-> data.due_date,
                 completed   |-> IF data.completed = None THEN FALSE ELSE Get(data.completed),
                 created_at  |-> created,
                 updated_at  |-> IF data.updated_at = None THEN created
                                 ELSE Get(data.updated_at)]
    IN  [errors |-> errs, item |-> IF errs = {} THEN Some(self) ELSE None]

\* model_dump(): the constructor data that rebuilds the item
model_dump(self) ==
    [id |-> Some(self.id), title |-> self.title, description |-> self.description,
     due_date |-> self.due_date, completed |-> Some(self.completed),
     created_at |-> Some(self.created_at), updated_at |-> Some(self.updated_at)]

\* (variant of mark_completed that stamps created_at as well)
mark_completed_restamped(self, t) ==
    [self EXCEPT !.completed = TRUE, !.updated_at = t, !.created_at = t]

\* (variant of mark_completed that flips the flag)
mark_completed_toggled(self, t) ==
    [self EXCEPT !.completed = ~self.completed, !.updated_at = t]

\* mark_completed at clock value t
mark_completed(self, t) == [self EXCEPT !.completed = TRUE, !.updated_at = t]

UpdatableFields == {"title", "description", "due_date"}

\* current_data overlaid with the keyword arguments, in call order
RECURSIVE Overlay(_, _)
Overlay(data, kwargs) ==
    IF kwargs = <<>> THEN data
    ELSE LET a == Head(kwargs)
             d == IF a.f = "title" THEN [data EXCEPT !.title = Get(a.s)]
                  ELSE IF a.f = "description" THEN [data EXCEPT !.description = a.s]
                  ELSE IF a.f = "due_date" THEN [data EXCEPT !.due_date = a.t]
                  ELSE data
         IN  Overlay(d, Tail(kwargs))

\* The setattr loop of update_details over the keyword arguments, each
\* assignment validated (validate_assignment = True); tA is the clock read by
\* validate_due_date on assignment.  The loop stops at the first assignment
\* that raises, keeping the assignments already made.
RECURSIVE Assign(_, _, _, _)
Assign(self, kwargs, temp, tA) ==
    IF kwargs = <<>> THEN [errors |-> {}, item |-> self]
    ELSE LET a == Head(kwargs) IN
         IF a.f = "title"
         THEN Assign([self EXCEPT !.title = validate_title(temp.title)], Tail(kwargs), temp, tA)
         ELSE IF a.f = "description"
         THEN Assign([self EXCEPT !.description = a.s], Tail(kwargs), temp, tA)
         ELSE IF a.f = "due_date"
         THEN IF validate_due_date_raises(a.t, tA)
              THEN [errors |-> due_date_errors(a.t, tA), item |-> self]
              ELSE Assign([self EXCEPT !.due_date = a.t], Tail(kwargs), temp, tA)
         ELSE Assign(self, Tail(kwargs), temp, tA)

\* (variant of update_details that validates the due date only when the call
\* supplies one)
update_details_supplied_only(self, kwargs, tV, tA, tE) ==
    LET supplied == \E i \in 1..Len(kwargs) : kwargs[i].f = "due_date"
        temp == TodoItem(Overlay(model_dump(self), kwargs), self.id,
                         IF supplied THEN tV ELSE 0, tV)
    IN  IF temp.errors # {} THEN [errors |-> temp.errors, item |-> self]
        ELSE LET r == Assign(self, kwargs, Get(temp.item), tA) IN
             IF r.errors # {} THEN r
             ELSE [errors |-> {}, item |-> [r.item EXCEPT !.updated_at = tE]]

\* (variant of update_details that leaves updated_at alone)
update_details_unstamped(self, kwargs, tV, tA, tE) ==
    LET temp == TodoItem(Overlay(model_dump(self), kwargs), self.id, tV, tV) IN
    IF temp.errors # {} THEN [errors |-> temp.errors, item |-> self]
    ELSE Assign(self, kwargs, Get(temp.item), tA)

\* update_details(**kwargs): tV is the clock read while the temporary instance
\* is validated, tA the one read while due_date is assigned, tE the one stored
\* in updated_at.  The outcome is the errors raised and the item as it is left.
update_details(self, kwargs, tV, tA, tE) ==
    LET temp == TodoItem(Overlay(model_dump(self), kwargs), self.id, tV, tV) IN
    IF temp.errors # {} THEN [errors |-> temp.errors, item |-> self]
    ELSE LET r == Assign(self, kwargs, Get(temp.item), tA) IN
         IF r.errors # {} THEN r
         ELSE [errors |-> {}, item |-> [r.item EXCEPT !.updated_at = tE]]

HasKw(kwargs, f) == \E i \in 1..Len(kwargs) : kwargs[i].f = f
KwArgOf(kwargs, f) == kwargs[CHOOSE i \in 1..Len(kwargs) : kwargs[i].f = f]

\* ------------------------------------------------- stored representations
\* str(uuid) and UUID(text); datetime.isoformat() and datetime.fromisoformat()
uuid_str(id) == [uuid |-> id]
UUID(text) == text.uuid
isoformat(t) == [iso |-> t]
fromisoformat(text) == text.iso

\* str(bool).lower() as written to XML, and text.lower() == "true" as read back
bool_text(b) == IF b THEN "true" ELSE "false"
text_bool(text) == text = "true"

\* a call returns a value, or raises an exception whose message may name
\* fields (fields) and says what is wrong with them (why)
Ok(v) == [res |-> "ok", val |-> v, msg |-> None]
Raised(e) == [res |-> e, val |-> None, msg |-> None]
ConversionError(fields, why) ==
    [res |-> "TodoDomainError", val |-> None, msg |-> Some([fields |-> fields, why |-> why])]

\* text that UUID() and datetime.fromisoformat() reject with a ValueError
Malformed == -1
uuid_parses(text) == text.uuid # Malformed
iso_parses(text) == text.iso # Malformed

\* the file as a document holding the given records
Doc(recs) == [st |-> "doc", recs |-> recs]

Min(S) == CHOOSE x \in S : \A y \in S : x <= y

\* ------------------------------------------------------- JSON repository
\* (variant of _load_todos that reads text that is not JSON as an empty list)
load_todos_lenient(f) ==
    IF f.st = "doc" THEN Ok(f.recs)
    ELSE IF f.st \in {"object", "garbage"} THEN Ok(<<>>)
    ELSE Raised("TodoDomainError")

\* _load_todos: the list of dictionaries of the file, the empty list when the
\* file holds JSON that is not a list ("object"); a missing file (OSError), a
\* zero-length one or one that is not JSON ("garbage", JSONDecodeError) raises
load_todos(f) ==
    IF f.st = "doc" THEN Ok(f.recs)
    ELSE IF f.st = "object" THEN Ok(<<>>)
    ELSE Raised("TodoDomainError")

\* _todo_to_dict
todo_to_dict(todo) ==
    [id          |-> uuid_str(todo.id),
     title       |-> todo.title,
     description |-> todo.description,
     due_date    |-> IF todo.due_date # None THEN Some(isoformat(Get(todo.due_date)))
                     ELSE None,
     completed   |-> todo.completed,
     created_at  |-> isoformat(todo.created_at),
     updated_at  |-> isoformat(todo.updated_at)]

\* the fields that the message of pydantic's ValidationError names
error_fields(errors) ==
    {"title" : e \in errors \cap {"title: string_too_short", "title: string_too_long",
                                  "Title cannot be empty or whitespace only"}}
    \cup {"description" : e \in errors \cap {"description: string_too_long"}}
    \cup {"due_date" : e \in errors \cap {"Due date cannot be in the past"}}

\* the first exception raised while the arguments of TodoItem(...) are
\* evaluated in _dict_to_todo, in their order: KeyError for a missing key,
\* ValueError for text that UUID() or fromisoformat() rejects ({} when none)
dict_to_todo_error(data) ==
    IF "id" \notin DOMAIN data THEN Some([fields |-> {"id"}, why |-> "KeyError"])
    ELSE IF ~uuid_parses(data.id)
    THEN Some([fields |-> {}, why |-> "badly formed hexadecimal UUID string"])
    ELSE IF "title" \notin DOMAIN data THEN Some([fields |-> {"title"}, why |-> "KeyError"])
    ELSE IF "due_date" \in DOMAIN data /\ data.due_date # None
            /\ ~iso_parses(Get(data.due_date))
    THEN Some([fields |-> {}, why |-> "Invalid isoformat string"])
    ELSE IF "completed" \notin DOMAIN data
    THEN Some([fields |-> {"completed"}, why |-> "KeyError"])
    ELSE IF "created_at" \notin DOMAIN data
    THEN Some([fields |-> {"created_at"}, why |-> "KeyError"])
    ELSE IF ~iso_parses(data.created_at)
    THEN Some([fields |-> {}, why |-> "Invalid isoformat string"])
    ELSE IF "updated_at" \notin DOMAIN data
    THEN Some([fields |-> {"updated_at"}, why |-> "KeyError"])
    ELSE IF ~iso_parses(data.updated_at)
    THEN Some([fields |-> {}, why |-> "Invalid isoformat string"])
    ELSE None

\* the TodoItem(...) call of _dict_to_todo once its arguments are evaluated
dict_to_todo_item(data, now) ==
    TodoItem([id          |-> Some(UUID(data.id)),
              title       |-> data.title,
              description |-> IF "description" \in DOMAIN data
                              THEN data.description ELSE None,
              due_date    |-> IF "due_date" \in DOMAIN data /\ data.due_date # None
                              THEN Some(fromisoformat(Get(data.due_date)))
                              ELSE None,
              completed   |-> Some(data.completed),
              created_at  |-> Some(fromisoformat(data.created_at)),
              updated_at  |-> Some(fromisoformat(data.updated_at))],
             UUID(data.id), now, now)

\* _dict_to_todo at clock value now: a missing key (KeyError), malformed text
\* (ValueError) or a value the TodoItem constructor rejects (pydantic's
\* ValidationError is a ValueError) raises TodoDomainError with its message
dict_to_todo(data, now) ==
    LET e == dict_to_todo_error(data) IN
    IF e # None THEN ConversionError(Get(e).fields, Get(e).why)
    ELSE LET r == dict_to_todo_item(data, now) IN
         IF r.errors # {} THEN ConversionError(error_fields(r.errors), "validation")
         ELSE Ok(r.item)

\* the indexes of the dictionaries whose "id" is the text of the given id
json_hits(todos, id) ==
    {i \in 1..Len(todos) : "id" \in DOMAIN todos[i] /\ todos[i].id = uuid_str(id)}

\* the loop over the dictionaries reads existing_todo["id"] of each one up to
\* the first match: a dictionary without that key raises KeyError
json_key_error(todos, id) ==
    LET hits == json_hits(todos, id)
        scanned == IF hits # {} THEN Min(hits) ELSE Len(todos)
    IN  \E i \in 1..scanned : "id" \notin DOMAIN todos[i]

\* every operation returns its outcome (res, val) and the file as it leaves it
Outcome(r, f) == [res |-> r.res, val |-> r.val, msg |-> r.msg, file |-> f]

\* the sequence without its i-th element (list.pop(i) / parent.remove(elem))
RemoveAt(seq, i) == [j \in 1..(Len(seq) - 1) |-> IF j < i THEN seq[j] ELSE seq[j + 1]]

\* (variant of JSONTodoRepository.save that appends without looking for the id)
json_save_append(f, todo) ==
    LET l == load_todos(f) IN
    IF l.res # "ok" THEN Outcome(l, f)
    ELSE Outcome(Ok(None), Doc(Append(l.val, todo_to_dict(todo))))

json_save(f, todo) ==
    LET l == load_todos(f) IN
    IF l.res # "ok" THEN Outcome(l, f)
    ELSE IF json_key_error(l.val, todo.id) THEN Outcome(Raised("KeyError"), f)
    ELSE LET hits == json_hits(l.val, todo.id) IN
         Outcome(Ok(None),
                 Doc(IF hits # {} THEN [l.val EXCEPT ![Min(hits)] = todo_to_dict(todo)]
                     ELSE Append(l.val, todo_to_dict(todo))))

json_find_by_id(f, id, now) ==
    LET l == load_todos(f) IN
    IF l.res # "ok" THEN Outcome(l, f)
    ELSE IF json_key_error(l.val, id) THEN Outcome(Raised("KeyError"), f)
    ELSE LET hits == json_hits(l.val, id) IN
         IF hits # {} THEN Outcome(dict_to_todo(l.val[Min(hits)], now), f)
         ELSE Outcome(Ok(None), f)

\* the list comprehension of find_all over the conversions of the records: the
\* items in file order, or the error of the first record that does not convert
RECURSIVE ConvertAll(_)
ConvertAll(converted) ==
    IF converted = <<>> THEN Ok(<<>>)
    ELSE LET h == Head(converted) IN
         IF h.res # "ok" THEN h
         ELSE LET t == ConvertAll(Tail(converted)) IN
              IF t.res # "ok" THEN t ELSE Ok(<<Get(h.val)>> \o t.val)

json_find_all(f, now) ==
    LET l == load_todos(f) IN
    IF l.res # "ok" THEN Outcome(l, f)
    ELSE Outcome(ConvertAll([j \in 1..Len(l.val) |-> dict_to_todo(l.val[j], now)]), f)

\* (variant of JSONTodoRepository.update that falls back to inserting)
json_update_upsert(f, todo) == json_save(f, todo)

json_update(f, todo) ==
    LET l == load_todos(f) IN
    IF l.res # "ok" THEN Outcome(l, f)
    ELSE IF json_key_error(l.val, todo.id) THEN Outcome(Raised("KeyError"), f)
    ELSE LET hits == json_hits(l.val, todo.id) IN
         IF hits # {}
         THEN Outcome(Ok(None), Doc([l.val EXCEPT ![Min(hits)] = todo_to_dict(todo)]))
         ELSE Outcome(Raised("TodoNotFoundError"), f)

\* (variant of JSONTodoRepository.delete that removes the last record instead)
json_delete_last(f, id) ==
    LET l == load_todos(f) IN
    IF l.res # "ok" THEN Outcome(l, f)
    ELSE IF json_key_error(l.val, id) THEN Outcome(Raised("KeyError"), f)
    ELSE IF json_hits(l.val, id) # {}
         THEN Outcome(Ok(None), Doc(RemoveAt(l.val, Len(l.val))))
         ELSE Outcome(Raised("TodoNotFoundError"), f)

json_delete(f, id) ==
    LET l == load_todos(f) IN
    IF l.res # "ok" THEN Outcome(l, f)
    ELSE IF json_key_error(l.val, id) THEN Outcome(Raised("KeyError"), f)
    ELSE LET hits == json_hits(l.val, id) IN
         IF hits # {} THEN Outcome(Ok(None), Doc(RemoveAt(l.val, Min(hits))))
         ELSE Outcome(Raised("TodoNotFoundError"), f)

json_exists(f, id) ==
    LET l == load_todos(f) IN
    IF l.res # "ok" THEN Outcome(l, f)
    ELSE IF json_key_error(l.val, id) THEN Outcome(Raised("KeyError"), f)
    ELSE Outcome(Ok(json_hits(l.val, id) # {}), f)

\* -------------------------------------------------------- XML repository
\* A <todo> element is the function from the tags of its children to their
\* text; the text of an element read back from the file is None when the
\* element was written with empty text.
xml_text(s) == IF StrLen(s) = 0 THEN None ELSE Some(s)

\* _load_xml_tree: the <todo> children of the root; a missing file (OSError),
\* a zero-length one or one that is not XML ("garbage", XMLSyntaxError) raises
load_xml_tree(f) ==
    IF f.st = "doc" THEN Ok(f.recs) ELSE Raised("TodoDomainError")

\* _todo_to_xml_element, as the element reads once written to the file
todo_to_xml_element(todo) ==
    LET id          == Some(uuid_str(todo.id))
        title       == xml_text(todo.title)
        completed   == Some(bool_text(todo.completed))
        created_at  == Some(isoformat(todo.created_at))
        updated_at  == Some(isoformat(todo.updated_at))
        description == IF todo.description # None
                       THEN xml_text(Get(todo.description)) ELSE None
        due_date    == IF todo.due_date # None
                       THEN Some(isoformat(Get(todo.due_date))) ELSE None
    IN  CASE todo.description # None /\ todo.due_date # None ->
                [id |-> id, title |-> title, description |-> description,
                 due_date |-> due_date, completed |-> completed,
                 created_at |-> created_at, updated_at |-> updated_at]
          [] todo.description # None /\ todo.due_date = None ->
                [id |-> id, title |-> title, description |-> description,
                 completed |-> completed,
                 created_at |-> created_at, updated_at |-> updated_at]
          [] todo.description = None /\ todo.due_date # None ->
                [id |-> id, title |-> title,
                 due_date |-> due_date, completed |-> completed,
                 created_at |-> created_at, updated_at |-> updated_at]
          [] OTHER ->
                [id |-> id, title |-> title, completed |-> completed,
                 created_at |-> created_at, updated_at |-> updated_at]

\* _extract_required_text: the error message, if any
extract_required_text_error(parent, tag) ==
    IF tag \notin DOMAIN parent THEN Some("Missing required element")
    ELSE IF parent[tag] = None THEN Some("Missing text content")
    ELSE None

\* the required fields, in the order _xml_element_to_todo extracts them
RequiredTags == <<"id", "title", "completed", "created_at", "updated_at">>

\* the first exception raised in _xml_element_to_todo before TodoItem(...) is
\* called: the first required field that cannot be extracted, then text that
\* UUID() or fromisoformat() rejects ({} when none)
xml_element_to_todo_error(todo_elem) ==
    LET failing == {i \in 1..Len(RequiredTags) :
                       extract_required_text_error(todo_elem, RequiredTags[i]) # None}
    IN  IF failing # {}
        THEN Some([fields |-> {RequiredTags[Min(failing)]},
                   why |-> Get(extract_required_text_error(todo_elem,
                                                           RequiredTags[Min(failing)]))])
        ELSE IF ~uuid_parses(Get(todo_elem.id))
        THEN Some([fields |-> {}, why |-> "badly formed hexadecimal UUID string"])
        ELSE IF "due_date" \in DOMAIN todo_elem /\ todo_elem.due_date # None
                /\ ~iso_parses(Get(todo_elem.due_date))
        THEN Some([fields |-> {}, why |-> "Invalid isoformat string"])
        ELSE IF ~iso_parses(Get(todo_elem.created_at))
                \/ ~iso_parses(Get(todo_elem.updated_at))
        THEN Some([fields |-> {}, why |-> "Invalid isoformat string"])
        ELSE None

\* _xml_element_to_todo at clock value now
xml_element_to_todo(todo_elem, now) ==
    LET e == xml_element_to_todo_error(todo_elem) IN
    IF e # None THEN ConversionError(Get(e).fields, Get(e).why)
    ELSE LET description_text == IF "description" \in DOMAIN todo_elem
                                 THEN todo_elem.description ELSE None
             due_date_text == IF "due_date" \in DOMAIN todo_elem
                              THEN todo_elem.due_date ELSE None
             r == TodoItem(
                    [id          |-> Some(UUID(Get(todo_elem.id))),
                     title       |-> Get(todo_elem.title),
                     description |-> description_text,
                     due_date    |-> IF due_date_text # None
                                     THEN Some(fromisoformat(Get(due_date_text)))
                                     ELSE None,
                     completed   |-> Some(text_bool(Get(todo_elem.completed))),
                     created_at  |-> Some(fromisoformat(Get(todo_elem.created_at))),
                     updated_at  |-> Some(fromisoformat(Get(todo_elem.updated_at)))],
                    UUID(Get(todo_elem.id)), now, now)
         IN  IF r.errors # {} THEN ConversionError(error_fields(r.errors), "validation")
             ELSE Ok(r.item)

\* _find_todo_element_by_id: the indexes of the matching elements (the code
\* takes the first)
xml_hits(root, id) ==
    {i \in 1..Len(root) : "id" \in DOMAIN root[i] /\ root[i].id = Some(uuid_str(id))}

xml_save(f, todo) ==
    LET l == load_xml_tree(f) IN
    IF l.res # "ok" THEN Outcome(l, f)
    ELSE LET hits == xml_hits(l.val, todo.id) IN
         Outcome(Ok(None),
                 Doc(IF hits # {}
                     THEN [l.val EXCEPT ![Min(hits)] = todo_to_xml_element(todo)]
                     ELSE Append(l.val, todo_to_xml_element(todo))))

xml_find_by_id(f, id, now) ==
    LET l == load_xml_tree(f) IN
    IF l.res # "ok" THEN Outcome(l, f)
    ELSE LET hits == xml_hits(l.val, id) IN
         IF hits # {} THEN Outcome(xml_element_to_todo(l.val[Min(hits)], now), f)
         ELSE Outcome(Ok(None), f)

xml_find_all(f, now) ==
    LET l == load_xml_tree(f) IN
    IF l.res # "ok" THEN Outcome(l, f)
    ELSE Outcome(ConvertAll([j \in 1..Len(l.val) |-> xml_element_to_todo(l.val[j], now)]), f)

xml_update(f, todo) ==
    LET l == load_xml_tree(f) IN
    IF l.res # "ok" THEN Outcome(l, f)
    ELSE LET hits == xml_hits(l.val, todo.id) IN
         IF hits = {} THEN Outcome(Raised("TodoNotFoundError"), f)
         ELSE Outcome(Ok(None),
                      Doc([l.val EXCEPT ![Min(hits)] = todo_to_xml_element(todo)]))

xml_delete(f, id) ==
    LET l == load_xml_tree(f) IN
    IF l.res # "ok" THEN Outcome(l, f)
    ELSE LET hits == xml_hits(l.val, id) IN
         IF hits = {} THEN Outcome(Raised("TodoNotFoundError"), f)
         ELSE Outcome(Ok(None), Doc(RemoveAt(l.val, Min(hits))))

xml_exists(f, id) ==
    LET l == load_xml_tree(f) IN
    IF l.res # "ok" THEN Outcome(l, f)
    ELSE Outcome(Ok(xml_hits(l.val, id) # {}), f)

\* --------------------------------------------------- repository contract
\* the operations of TodoRepository, dispatched on the implementation k
save(k, f, todo) == IF k = "json" THEN json_save(f, todo) ELSE xml_save(f, todo)
find_by_id(k, f, id, now) ==
    IF k = "json" THEN json_find_by_id(f, id, now) ELSE xml_find_by_id(f, id, now)
find_all(k, f, now) == IF k = "json" THEN json_find_all(f, now) ELSE xml_find_all(f, now)
update(k, f, todo) == IF k = "json" THEN json_update(f, todo) ELSE xml_update(f, todo)
delete(k, f, id) == IF k = "json" THEN json_delete(f, id) ELSE xml_delete(f, id)
exists(k, f, id) == IF k = "json" THEN json_exists(f, id) ELSE xml_exists(f, id)

\* the stored record of an item, and the item of a stored record
to_record(k, todo) == IF k = "json" THEN todo_to_dict(todo) ELSE todo_to_xml_element(todo)
to_todo(k, rec, now) ==
    IF k = "json" THEN dict_to_todo(rec, now) ELSE xml_element_to_todo(rec, now)
hits_of(k, recs, id) == IF k = "json" THEN json_hits(recs, id) ELSE xml_hits(recs, id)

\* (variant of ensure_file_exists that initializes only a missing file)
ensure_file_exists_if_missing(f) == IF f.st = "missing" THEN Doc(<<>>) ELSE f

\* (variant of ensure_file_exists that initializes the file unconditionally)
ensure_file_exists_always(f) == Doc(<<>>)

\* ensure_file_exists with _initialize_empty_json / _initialize_empty_xml: a
\* missing or zero-length file becomes an empty collection
ensure_file_exists(f) ==
    IF f.st = "missing" THEN Doc(<<>>)
    ELSE IF f.st = "zero" THEN Doc(<<>>)
    ELSE f

\* ------------------------------------------------------- inputs (entity)
\* uuid4(): an identifier no item in existence carries; identifiers are
\* interchangeable, so the least one stands for any fresh one
uuid4(taken) == CHOOSE u \in IDs \ taken : TRUE

TitleInputs ==
    {Text(0), Blank(1), Str(1, 1, 1), Text(TitleMaxLength), Str(1, TitleMaxLength, 0),
     Text(TitleMaxLength + 1)}
DescriptionInputs ==
    {None, Some(Text(DescriptionMaxLength)), Some(Text(DescriptionMaxLength + 1))}
DueDateInputs == {None} \cup {Some(t) : t \in Times}

NoData ==
    [id |-> None, title |-> Text(1), description |-> None, due_date |-> None,
     completed |-> None, created_at |-> None, updated_at |-> None]

\* constructor calls that supply title, description and due_date
CreateInputs ==
    {[NoData EXCEPT !.title = t, !.description = d, !.due_date = u] :
        t \in TitleInputs, d \in DescriptionInputs, u \in DueDateInputs}

\* constructor calls that supply id, completed and the two timestamps
StampInputs ==
    {[NoData EXCEPT !.id = i, !.completed = c, !.created_at = ca, !.updated_at = ua] :
        i \in {None} \cup {Some(x) : x \in IDs}, c \in {None, Some(TRUE)},
        ca \in {None} \cup {Some(t) : t \in Times},
        ua \in {None} \cup {Some(t) : t \in Times}}

\* one keyword argument: its name and its value, text (s) or a timestamp (t)
KwText(f, v) == [f |-> f, s |-> v, t |-> None]
KwTime(f, v) == [f |-> f, s |-> None, t |-> v]
KwArgs ==
    {KwText("title", Some(t)) : t \in {Blank(1), Str(1, 1, 1), Str(1, TitleMaxLength, 0)}}
    \cup {KwText("description", d) : d \in DescriptionInputs}
    \cup {KwTime("due_date", u) : u \in DueDateInputs}
\* keyword arguments in every call order: one field with any of the values
\* above, two fields with a padded or blank title or a cleared or too long
\* description, and all three fields with a padded title and a cleared description
KwInputs ==
    {s \in UNION {[1..n -> KwArgs] : n \in 0..Cardinality(UpdatableFields)} :
        /\ \A i, j \in DOMAIN s : i # j => s[i].f # s[j].f
        /\ Len(s) = 2 =>
              \A i \in DOMAIN s : s[i].f # "due_date" =>
                  s[i].s \in {None, Some(Str(1, 1, 1)), Some(Blank(1)),
                              Some(Text(DescriptionMaxLength + 1))}
        /\ Len(s) = Cardinality(UpdatableFields) =>
              \A i \in DOMAIN s : s[i].f # "due_date" => s[i].s \in {None, Some(Str(1, 1, 1))}}
\* calls with at most one keyword argument
StampKwInputs == {s \in KwInputs : Len(s) <= 1}

\* ------------------------------------------------------ actions (entity)
Tick ==
    /\ clock < MaxClock
    /\ clock' = clock + 1
    /\ last' = [op |-> "tick"]
    /\ UNCHANGED <<item, kind, file, insts, made, pending, twin, cli>>

\* a caller constructs a TodoItem and keeps it when construction succeeds
\* (the clock advances between calls by Tick and inside a call between its reads)
Construct(data) ==
    /\ made # IDs
    /\ \E tC \in clock..MaxClock :
        LET tV == clock
            r == TodoItem(data, uuid4(made), tV, tC) IN
        /\ item' = IF r.errors = {} THEN r.item ELSE item
        /\ made' = IF r.errors = {} THEN made \cup {Get(r.item).id} ELSE made
        /\ clock' = tC
        /\ last' = [op |-> "TodoItem", data |-> data, errors |-> r.errors, reads |-> {tV},
                    others |-> made]
    /\ UNCHANGED <<kind, file, insts, pending, twin, cli>>

\* the first item a caller constructs
Create(data) == item = None /\ Construct(data)

\* a further item, which the caller holds in place of the one before
CreateNext(data) == item # None /\ Construct(data)

MarkCompleted ==
    /\ item # None
    /\ \E t \in clock..MaxClock :
        /\ item' = Some(mark_completed(Get(item), t))
        /\ clock' = t
        /\ last' = [op |-> "mark_completed", errors |-> {}, before |-> Get(item),
                    again |-> last.op = "mark_completed"]
    /\ UNCHANGED <<kind, file, insts, made, pending, twin, cli>>

UpdateDetails(kwargs) ==
    /\ item # None
    /\ \E tA \in clock..MaxClock : \E tE \in tA..MaxClock :
        LET tV == clock
            self == Get(item)
            temp == TodoItem(Overlay(model_dump(self), kwargs), self.id, tV, tV)
            assigns == temp.errors = {} /\ HasKw(kwargs, "due_date")
            r == update_details(self, kwargs, tV, tA, tE)
        IN  /\ assigns \/ tA = tV
            /\ r.errors = {} \/ tE = tA
            /\ item' = Some(r.item)
            /\ clock' = tE
            /\ last' = [op |-> "update_details", kwargs |-> kwargs, errors |-> r.errors,
                        reads |-> IF assigns THEN {tV, tA} ELSE {tV}]
    /\ UNCHANGED <<kind, file, insts, made, pending, twin, cli>>

\* ------------------------------------------------------- specifications
InitEntity ==
    /\ clock = 0
    /\ item = None
    /\ kind = "json"
    /\ file = [st |-> "missing", recs |-> <<>>]
    /\ insts = {}
    /\ made = {}
    /\ pending = {}
    /\ twin = [st |-> "missing", recs |-> <<>>]
    /\ cli = [pc |-> "off"]
    /\ last = [op |-> "init"]

NextEntity ==
    \/ Tick
    \/ \E data \in CreateInputs : Create(data)
    \/ MarkCompleted
    \/ \E kwargs \in KwInputs : UpdateDetails(kwargs)

SpecEntity == InitEntity /\ [][NextEntity]_vars

NextStamps ==
    \/ Tick
    \/ \E data \in StampInputs : Create(data)
    \/ \E data \in StampInputs : CreateNext(data)
    \/ MarkCompleted
    \/ \E kwargs \in StampKwInputs : UpdateDetails(kwargs)

SpecStamps == InitEntity /\ [][NextStamps]_vars

\* -------------------------------------------------- inputs (repository)
\* the items Spec stores: for each id an item without description, one with
\* an empty description and a completed one with a description; none has a
\* due date
OrderInputs ==
    {[NoData EXCEPT !.id = Some(i), !.description = d, !.completed = Some(d = Some(Text(1)))] :
        i \in IDs, d \in {None, Some(Text(0)), Some(Text(1))}}
OrderPool == {Get(TodoItem(d, Get(d.id), 0, 0).item) : d \in OrderInputs}
\* the items SpecInstances stores: those of them that are not completed
InstancePool == {t \in OrderPool : ~t.completed}

\* the constructor calls whose items SpecRoundTrip stores: one task, with every
\* shape of description and due date
RoundTripInputs ==
    {[NoData EXCEPT !.title = t, !.description = d, !.due_date = u, !.completed = c] :
        t \in {Str(1, 1, 1), Text(TitleMaxLength)},
        d \in {None, Some(Text(0)), Some(Text(1))},
        u \in DueDateInputs,
        c \in {None, Some(TRUE)}}

\* ------------------------------------------------- actions (repository)
\* the write that the last call was, or that a construction since left behind
PrevWrite ==
    IF last.op \in {"save", "update", "delete"}
    THEN Some([op |-> last.op, inst |-> last.inst, id |-> last.id, todo |-> last.todo,
               res |-> last.res])
    ELSE IF last.op = "new" THEN last.prev
    ELSE None

\* the write made through another instance than i that a read through i follows
OtherWrite(i) ==
    IF PrevWrite # None /\ Get(PrevWrite).inst # i THEN PrevWrite ELSE None

Call(op, i, id, todo, r, prev) ==
    [op |-> op, inst |-> i, id |-> id, todo |-> todo, res |-> r.res, val |-> r.val,
     msg |-> r.msg,
     before |-> file, prev |-> prev,
     fresh |-> last.op = "new" /\ last.inst = i]

\* JSONTodoRepository(path) / XMLTodoRepository(path): a new instance
\* (instances are numbered in the order of their construction)
New(i) ==
    /\ i \notin insts
    /\ i = Min(InstIds \ insts)
    /\ insts' = insts \cup {i}
    /\ file' = ensure_file_exists(file)
    /\ last' = Call("new", i, 0, None, Ok(None), PrevWrite)
    /\ UNCHANGED <<clock, item, kind, made, pending, twin, cli>>

Save(i, todo) ==
    /\ i \in insts
    /\ LET r == save(kind, file, todo) IN
        /\ file' = r.file
        /\ last' = Call("save", i, todo.id, Some(todo), r, None)
    /\ UNCHANGED <<clock, item, kind, insts, made, pending, twin, cli>>

\* a caller constructs an item now and saves it
SaveCreated(i, data) ==
    LET r == TodoItem(data, uuid4({}), clock, clock) IN
    /\ r.errors = {}
    /\ Save(i, Get(r.item))

Update(i, todo) ==
    /\ i \in insts
    /\ LET r == update(kind, file, todo) IN
        /\ file' = r.file
        /\ last' = Call("update", i, todo.id, Some(todo), r, None)
    /\ UNCHANGED <<clock, item, kind, insts, made, pending, twin, cli>>

Delete(i, id) ==
    /\ i \in insts
    /\ LET r == delete(kind, file, id) IN
        /\ file' = r.file
        /\ last' = Call("delete", i, id, None, r, None)
    /\ UNCHANGED <<clock, item, kind, insts, made, pending, twin, cli>>

FindById(i, id) ==
    /\ i \in insts
    /\ LET r == find_by_id(kind, file, id, clock) IN
        /\ file' = r.file
        /\ last' = Call("find_by_id", i, id, None, r, OtherWrite(i))
    /\ UNCHANGED <<clock, item, kind, insts, made, pending, twin, cli>>

FindAll(i) ==
    /\ i \in insts
    /\ LET r == find_all(kind, file, clock) IN
        /\ file' = r.file
        /\ last' = Call("find_all", i, 0, None, r, OtherWrite(i))
    /\ UNCHANGED <<clock, item, kind, insts, made, pending, twin, cli>>

Exists(i, id) ==
    /\ i \in insts
    /\ LET r == exists(kind, file, id) IN
        /\ file' = r.file
        /\ last' = Call("exists", i, id, None, r, OtherWrite(i))
    /\ UNCHANGED <<clock, item, kind, insts, made, pending, twin, cli>>

\* the file before any repository was constructed over the path: not there, or
\* there with no content
InitRepo ==
    /\ clock = 0
    /\ item = None
    /\ kind \in {"json", "xml"}
    /\ file \in {[st |-> "missing", recs |-> <<>>], [st |-> "zero", recs |-> <<>>]}
    /\ insts = {}
    /\ made = {}
    /\ pending = {}
    /\ twin = [st |-> "missing", recs |-> <<>>]
    /\ cli = [pc |-> "off"]
    /\ last = [op |-> "init"]

\* one repository instance over the path
NextRepo ==
    \/ New(Min(InstIds))
    \/ \E todo \in OrderPool : Save(Min(InstIds), todo)
    \/ \E todo \in OrderPool : Update(Min(InstIds), todo)
    \/ \E id \in IDs : Delete(Min(InstIds), id)
    \/ \E id \in IDs : FindById(Min(InstIds), id)
    \/ FindAll(Min(InstIds))
    \/ \E id \in IDs : Exists(Min(InstIds), id)

Spec == InitRepo /\ [][NextRepo]_vars

\* several repository instances over the same path
NextInstances ==
    \/ \E i \in InstIds : New(i)
    \/ \E i \in InstIds : \E todo \in InstancePool : Save(i, todo)
    \/ \E i \in InstIds : \E todo \in InstancePool : Update(i, todo)
    \/ \E i \in InstIds : \E id \in IDs : Delete(i, id)
    \/ \E i \in InstIds : \E id \in IDs : FindById(i, id)
    \/ \E i \in InstIds : FindAll(i)
    \/ \E i \in InstIds : \E id \in IDs : Exists(i, id)

SpecInstances == InitRepo /\ [][NextInstances]_vars

\* one repository instance, one task
NextRoundTrip ==
    \/ Tick
    \/ New(Min(InstIds))
    \/ \E data \in RoundTripInputs : SaveCreated(Min(InstIds), data)
    \/ FindById(Min(InstIds), uuid4({}))
    \/ FindAll(Min(InstIds))

SpecRoundTrip == InitRepo /\ [][NextRoundTrip]_vars

\* ------------------------------------------- files written by other hands
\* a record of the seven stored fields without one of them
Without(rec, k) ==
    CASE k = "id" ->
            [title |-> rec.title, description |-> rec.description,
             due_date |-> rec.due_date, completed |-> rec.completed,
             created_at |-> rec.created_at, updated_at |-> rec.updated_at]
      [] k = "title" ->
            [id |-> rec.id, description |-> rec.description,
             due_date |-> rec.due_date, completed |-> rec.completed,
             created_at |-> rec.created_at, updated_at |-> rec.updated_at]
      [] k = "description" ->
            [id |-> rec.id, title |-> rec.title,
             due_date |-> rec.due_date, completed |-> rec.completed,
             created_at |-> rec.created_at, updated_at |-> rec.updated_at]
      [] k = "due_date" ->
            [id |-> rec.id, title |-> rec.title, description |-> rec.description,
             completed |-> rec.completed,
             created_at |-> rec.created_at, updated_at |-> rec.updated_at]
      [] k = "completed" ->
            [id |-> rec.id, title |-> rec.title, description |-> rec.description,
             due_date |-> rec.due_date,
             created_at |-> rec.created_at, updated_at |-> rec.updated_at]
      [] k = "created_at" ->
            [id |-> rec.id, title |-> rec.title, description |-> rec.description,
             due_date |-> rec.due_date, completed |-> rec.completed,
             updated_at |-> rec.updated_at]
      [] k = "updated_at" ->
            [id |-> rec.id, title |-> rec.title, description |-> rec.description,
             due_date |-> rec.due_date, completed |-> rec.completed,
             created_at |-> rec.created_at]

\* the items behind the records of such a file: one with every field set, due
\* at the end of time, and one with the required fields only; their undamaged
\* records convert back to them
ForeignItem(i) ==
    IF i = Min(IDs)
    THEN [id |-> i, title |-> Text(1), description |-> Some(Text(1)),
          due_date |-> Some(MaxClock), completed |-> FALSE,
          created_at |-> 0, updated_at |-> 0]
    ELSE [id |-> i, title |-> Text(1), description |-> None, due_date |-> None,
          completed |-> TRUE, created_at |-> 0, updated_at |-> 0]

StoredFields == {"id", "title", "description", "due_date", "completed",
                 "created_at", "updated_at"}

\* what another program or an editor may leave of a JSON record: the record
\* itself, without one key, with null for an optional key, or with text that
\* is not a UUID or not a timestamp
ForeignDicts(todo) ==
    LET rec == todo_to_dict(todo) IN
    {rec}
    \cup {Without(rec, k) : k \in StoredFields}
    \cup {[rec EXCEPT !.description = None], [rec EXCEPT !.due_date = None]}
    \cup {[rec EXCEPT !.id = uuid_str(Malformed)],
          [rec EXCEPT !.due_date = Some(isoformat(Malformed))],
          [rec EXCEPT !.created_at = isoformat(Malformed)],
          [rec EXCEPT !.updated_at = isoformat(Malformed)]}

\* the same of an XML element: without one child, with a child without text,
\* or with malformed text
ForeignElements(todo) ==
    LET el == todo_to_xml_element(todo) IN
    {el}
    \cup {Without(el, k) : k \in StoredFields}
    \cup {[el EXCEPT ![k] = None] : k \in StoredFields}
    \cup {[el EXCEPT !.id = Some(uuid_str(Malformed))],
          [el EXCEPT !.created_at = Some(isoformat(Malformed))],
          [el EXCEPT !.updated_at = Some(isoformat(Malformed))]}
    \cup {[el EXCEPT ![k] = Some(isoformat(Malformed))] : k \in {"due_date"}}

ForeignRecords(k, todo) == IF k = "json" THEN ForeignDicts(todo) ELSE ForeignElements(todo)

\* the files: text that does not parse, JSON that is not a list, and documents
\* of one or two records of which the first item's may be damaged
ForeignFiles(k) ==
    {[st |-> "garbage", recs |-> <<>>]}
    \cup (IF k = "json" THEN {[st |-> "object", recs |-> <<>>]} ELSE {})
    \cup {Doc(<<r>>) : r \in ForeignRecords(k, ForeignItem(Min(IDs)))}
    \cup {Doc(<<r, to_record(k, ForeignItem(Min(IDs) + 1))>>) :
             r \in ForeignRecords(k, ForeignItem(Min(IDs)))}
    \cup {Doc(<<to_record(k, ForeignItem(Min(IDs) + 1)), r>>) :
             r \in ForeignRecords(k, ForeignItem(Min(IDs)))}

InitForeign ==
    /\ clock = 0
    /\ item = None
    /\ kind \in {"json", "xml"}
    /\ file \in ForeignFiles(kind)
    /\ \A i \in IDs : to_todo(kind, to_record(kind, ForeignItem(i)), clock).val
                           = Some(ForeignItem(i))
    /\ insts = {}
    /\ made = {}
    /\ pending = {}
    /\ twin = [st |-> "missing", recs |-> <<>>]
    /\ cli = [pc |-> "off"]
    /\ last = [op |-> "init"]

\* the items a caller saves or updates over such a file
ForeignItems == {ForeignItem(i) : i \in IDs}

\* one repository instance over such a file
NextForeign ==
    \/ New(Min(InstIds))
    \/ \E todo \in ForeignItems : Save(Min(InstIds), todo)
    \/ \E todo \in ForeignItems : Update(Min(InstIds), todo)
    \/ \E id \in IDs : Delete(Min(InstIds), id)
    \/ \E id \in IDs : FindById(Min(InstIds), id)
    \/ FindAll(Min(InstIds))
    \/ \E id \in IDs : Exists(Min(InstIds), id)

SpecForeign == InitForeign /\ [][NextForeign]_vars

\* ------------------------------------------------------------ the service
\* the message create_todo / update_todo put into the domain ValidationError
\* for one error of pydantic's ValidationError
service_message(e) ==
    IF e = "title: string_too_short" THEN "Title cannot be empty"
    ELSE IF e = "title: string_too_long"
    THEN "title: String should have at most 200 characters"
    ELSE IF e = "description: string_too_long"
    THEN "description: String should have at most 1000 characters"
    ELSE e

\* the outcome of a service call: what it raises or returns, the messages of a
\* ValidationError, the file as it is left and the repository writes made
ServiceOutcome(res, messages, val, f, writes) ==
    [res |-> res, messages |-> messages, val |-> val, file |-> f, writes |-> writes]

\* TodoService.create_todo: uuid, tV and tC as for TodoItem
create_todo(k, f, title, description, due_date, uuid, tV, tC) ==
    LET r == TodoItem([NoData EXCEPT !.title = title, !.description = description,
                                     !.due_date = due_date], uuid, tV, tC)
    IN  IF r.errors # {}
        THEN ServiceOutcome("ValidationError", {service_message(e) : e \in r.errors},
                            None, f, <<>>)
        ELSE LET w == save(k, f, Get(r.item)) IN
             ServiceOutcome(w.res, {}, IF w.res = "ok" THEN r.item ELSE None,
                            w.file, <<"save">>)

\* TodoService.complete_todo: find_by_id reads the clock at tR and
\* mark_completed at tM
complete_todo(k, f, todo_id, tR, tM) ==
    LET found == find_by_id(k, f, todo_id, tR) IN
    IF found.res # "ok" THEN ServiceOutcome(found.res, {}, None, f, <<>>)
    ELSE IF found.val = None
    THEN ServiceOutcome("TodoNotFoundError", {}, None, f, <<>>)
    ELSE IF Get(found.val).completed
    THEN ServiceOutcome("ValidationError", {"Todo is already completed"}, None, f, <<>>)
    ELSE LET existing_todo == mark_completed(Get(found.val), tM)
             w == update(k, f, existing_todo)
         IN  ServiceOutcome(w.res, {}, IF w.res = "ok" THEN Some(existing_todo) ELSE None,
                            w.file, <<"update">>)

\* TodoService.update_todo, lines 159-162: the new item is persisted by
\* repository.update and returned
update_todo_persist(k, f, updated_todo) ==
    LET w == update(k, f, updated_todo) IN
    ServiceOutcome(w.res, {}, IF w.res = "ok" THEN Some(updated_todo) ELSE None,
                   w.file, <<"update">>)

\* (variant of update_todo_existing that does not pass the stored completed
\* flag to the new TodoItem, which then takes the default)
update_todo_existing_pending(k, f, existing_todo, title, description, due_date, tV, tC) ==
    LET update_data ==
            [NoData EXCEPT
               !.title = IF title # None THEN Get(title) ELSE existing_todo.title,
               !.description = IF description # None THEN description
                               ELSE existing_todo.description,
               !.due_date = IF due_date # None THEN due_date
                            ELSE existing_todo.due_date]
        r == TodoItem(update_data, existing_todo.id, tV, tC)
    IN  IF r.errors # {}
        THEN ServiceOutcome("ValidationError", {service_message(e) : e \in r.errors},
                            None, f, <<>>)
        ELSE Get({update_todo_persist(k, f, [new EXCEPT
                                               !.id = existing_todo.id,
                                               !.created_at = existing_todo.created_at]) :
                     new \in r.item})

\* TodoService.update_todo, lines 144-157 and 164-181: a new TodoItem is built
\* from the supplied values and, for a value passed as None, the stored one;
\* the id and created_at that the constructor gives it are overwritten with
\* the stored ones.  title is {} when the caller passes None.
update_todo_existing(k, f, existing_todo, title, description, due_date, tV, tC) ==
    LET update_data ==
            [NoData EXCEPT
               !.title = IF title # None THEN Get(title) ELSE existing_todo.title,
               !.description = IF description # None THEN description
                               ELSE existing_todo.description,
               !.due_date = IF due_date # None THEN due_date
                            ELSE existing_todo.due_date,
               !.completed = Some(existing_todo.completed)]
        r == TodoItem(update_data, existing_todo.id, tV, tC)
    IN  IF r.errors # {}
        THEN ServiceOutcome("ValidationError", {service_message(e) : e \in r.errors},
                            None, f, <<>>)
        ELSE Get({update_todo_persist(k, f, [new EXCEPT
                                               !.id = existing_todo.id,
                                               !.created_at = existing_todo.created_at]) :
                     new \in r.item})

\* TodoService.update_todo: find_by_id reads the clock at tR, the validation of
\* the new TodoItem at tV and its timestamp defaults at tC
update_todo(k, f, todo_id, title, description, due_date, tR, tV, tC) ==
    LET found == find_by_id(k, f, todo_id, tR) IN
    IF found.res # "ok" THEN ServiceOutcome(found.res, {}, None, f, <<>>)
    ELSE IF found.val = None
    THEN ServiceOutcome("TodoNotFoundError", {}, None, f, <<>>)
    ELSE Get({update_todo_existing(k, f, existing_todo, title, description, due_date,
                                   tV, tC) : existing_todo \in found.val})

\* TodoService.delete_todo
delete_todo(k, f, todo_id, tR) ==
    LET found == find_by_id(k, f, todo_id, tR) IN
    IF found.res # "ok" THEN ServiceOutcome(found.res, {}, None, f, <<>>)
    ELSE IF found.val = None
    THEN ServiceOutcome("TodoNotFoundError", {}, None, f, <<>>)
    ELSE LET w == delete(k, f, todo_id) IN
         ServiceOutcome(w.res, {}, None, w.file, <<"delete">>)

\* ------------------------------------------------------ inputs (service)
ServiceTitles == {Str(1, 1, 1), Text(0), Blank(TitleMaxLength + 1)}
ServiceDescriptions == {None, Some(Text(DescriptionMaxLength + 1))}

\* the values update_todo is called with: None, a title to be trimmed or an
\* empty one; None or a description; no due date or one at the start of time
UpdateTitles == {None, Some(Str(1, 2, 1)), Some(Text(0))}
UpdateDescriptions == {None, Some(Text(1))}
EditDueDates == {None, Some(0)}

\* ----------------------------------------------------- actions (service)
\* a call of a TodoService method on a service over repository instance i
CreateTodo(i, title, description, due_date) ==
    /\ i \in insts
    /\ made # IDs
    /\ \E tC \in clock..MaxClock :
        LET r == create_todo(kind, file, title, description, due_date,
                             uuid4(made), clock, tC) IN
        /\ file' = r.file
        /\ made' = IF r.val # None THEN made \cup {Get(r.val).id} ELSE made
        /\ clock' = tC
        /\ last' = [op |-> "create_todo", id |-> 0,
                    args |-> [title |-> Some(title), description |-> description,
                              due_date |-> due_date],
                    res |-> r.res, messages |-> r.messages, val |-> r.val,
                    writes |-> r.writes, before |-> file, now |-> clock]
    /\ UNCHANGED <<item, kind, insts, pending, twin, cli>>

CompleteTodo(i, todo_id) ==
    /\ i \in insts
    /\ \E tM \in clock..MaxClock :
        LET r == complete_todo(kind, file, todo_id, clock, tM) IN
        /\ file' = r.file
        /\ clock' = IF r.writes # <<>> THEN tM ELSE clock
        /\ last' = [op |-> "complete_todo", id |-> todo_id,
                    res |-> r.res, messages |-> r.messages, val |-> r.val,
                    writes |-> r.writes, before |-> file, now |-> clock]
    /\ UNCHANGED <<item, kind, insts, made, pending, twin, cli>>

UpdateTodo(i, todo_id, title, description, due_date) ==
    /\ i \in insts
    /\ \E tV \in clock..MaxClock : \E tC \in tV..MaxClock :
        \E r \in {update_todo(kind, file, todo_id, title, description, due_date,
                               clock, tV, tC)} :
            /\ r.res \in {"ok", "ValidationError"} \/ tV = clock
            /\ r.writes # <<>> \/ tC = tV
            /\ file' = r.file
            /\ clock' = tC
            /\ last' = [op |-> "update_todo", id |-> todo_id,
                        args |-> [title |-> title, description |-> description,
                                  due_date |-> due_date],
                        res |-> r.res, messages |-> r.messages, val |-> r.val,
                        writes |-> r.writes, before |-> file, now |-> clock]
    /\ UNCHANGED <<item, kind, insts, made, pending, twin, cli>>

DeleteTodo(i, todo_id) ==
    /\ i \in insts
    /\ LET r == delete_todo(kind, file, todo_id, clock) IN
        /\ file' = r.file
        /\ last' = [op |-> "delete_todo", id |-> todo_id,
                    res |-> r.res, messages |-> r.messages, val |-> r.val,
                    writes |-> r.writes, before |-> file, now |-> clock]
    /\ UNCHANGED <<clock, item, kind, insts, made, pending, twin, cli>>

NextService ==
    \/ Tick
    \/ New(Min(InstIds))
    \/ \E t \in ServiceTitles : \E d \in ServiceDescriptions : \E u \in DueDateInputs :
           CreateTodo(Min(InstIds), t, d, u)
    \/ \E id \in IDs : CompleteTodo(Min(InstIds), id)

SpecService == InitRepo /\ [][NextService]_vars

\* create_todo with a title and possibly a due date, while the file holds
\* fewer than MaxStored todos
EditCreate(i, due_date) ==
    /\ Len(file.recs) < MaxStored
    /\ CreateTodo(i, Text(1), None, due_date)

\* the service with all its editing use cases
NextEdit ==
    \/ Tick
    \/ New(Min(InstIds))
    \/ \E u \in EditDueDates : EditCreate(Min(InstIds), u)
    \/ \E id \in IDs : CompleteTodo(Min(InstIds), id)
    \/ \E id \in IDs : \E t \in UpdateTitles : \E d \in UpdateDescriptions :
       \E u \in EditDueDates : UpdateTodo(Min(InstIds), id, t, d, u)
    \/ \E id \in IDs : DeleteTodo(Min(InstIds), id)

SpecEdit == InitRepo /\ [][NextEdit]_vars

\* a caller reads a stored todo and holds it
Hold(i, id) ==
    /\ i \in insts
    /\ \E r \in {find_by_id(kind, file, id, clock)} :
        /\ r.val # None
        /\ item' = r.val
        /\ last' = [op |-> "hold", id |-> id]
    /\ UNCHANGED <<clock, kind, file, insts, made, pending, twin, cli>>

\* update_details of the held todo: with a title, and with completed=False, a
\* keyword the method does not act on
HeldKwInputs == {<<KwText("title", Some(Str(1, 1, 1)))>>, <<KwText("completed", None)>>}
\* update_todo with a title and possibly a due date
HeldTitles == {Some(Str(1, 2, 1))}

\* the service's editing use cases and a caller who holds a todo read from the
\* repository and calls its methods
NextHeld ==
    \/ Tick
    \/ New(Min(InstIds))
    \/ \E u \in EditDueDates : EditCreate(Min(InstIds), u)
    \/ \E id \in IDs : CompleteTodo(Min(InstIds), id)
    \/ \E id \in IDs : \E t \in HeldTitles : \E u \in EditDueDates :
           UpdateTodo(Min(InstIds), id, t, None, u)
    \/ \E id \in IDs : DeleteTodo(Min(InstIds), id)
    \/ \E id \in IDs : Hold(Min(InstIds), id)
    \/ MarkCompleted
    \/ \E kwargs \in HeldKwInputs : UpdateDetails(kwargs)

SpecHeld == InitRepo /\ [][NextHeld]_vars

\* ------------------------------------------- actions (load and write steps)
\* save, update and delete are a load of the file (_load_todos, _load_xml_tree),
\* a computation on what was loaded, and a write of the result (_save_todos,
\* _save_xml_tree).  A call in flight is kept in pending between its load and
\* its write: the instance, the operation, what it loaded and what it will
\* write.
InFlight(i, op, id, todo, r) ==
    [inst |-> i, op |-> op, id |-> id, todo |-> todo, loaded |-> file, file |-> r.file]

\* (variant of write_step under a lock held from the load on: the call acts on
\* the file as it is when it writes)
write_step_locked(k, p, f) ==
    IF p.op = "save" THEN save(k, f, Get(p.todo)).file
    ELSE IF p.op = "update" THEN update(k, f, Get(p.todo)).file
    ELSE delete(k, f, p.id).file

\* the file after call p in flight has written: what p computed from its load,
\* whatever the file f holds by now
write_step(k, p, f) == p.file

\* the load step of a call through instance i, which has no other call in
\* flight; a call that fails raises here and writes nothing
LoadStep(i, op, id, todo, r) ==
    /\ i \in insts
    /\ \A p \in pending : p.inst # i
    /\ pending' = IF r.res = "ok" THEN pending \cup {InFlight(i, op, id, todo, r)}
                  ELSE pending
    /\ last' = IF r.res = "ok" THEN [op |-> "load", inst |-> i, id |-> id]
               ELSE [op |-> op, inst |-> i, id |-> id, todo |-> todo, res |-> r.res,
                     loaded |-> file, prev |-> None]
    /\ UNCHANGED <<clock, item, kind, file, insts, made, twin, cli>>

SaveLoad(i, todo) == \E r \in {save(kind, file, todo)} : LoadStep(i, "save", todo.id, Some(todo), r)
UpdateLoad(i, todo) ==
    \E r \in {update(kind, file, todo)} : LoadStep(i, "update", todo.id, Some(todo), r)
DeleteLoad(i, id) == \E r \in {delete(kind, file, id)} : LoadStep(i, "delete", id, None, r)

\* the write step of the call in flight through instance i, after which the
\* call returns; prev is the call that returned in the step before
WriteStep(i) ==
    \E p \in pending :
        /\ p.inst = i
        /\ file' = write_step(kind, p, file)
        /\ pending' = pending \ {p}
        /\ last' = [op |-> p.op, inst |-> i, id |-> p.id, todo |-> p.todo, res |-> "ok",
                    loaded |-> p.loaded,
                    prev |-> IF last.op \in {"save", "update", "delete"} /\ last.res = "ok"
                             THEN Some([op |-> last.op, inst |-> last.inst, id |-> last.id,
                                        loaded |-> last.loaded])
                             ELSE None]
        /\ UNCHANGED <<clock, item, kind, insts, made, twin, cli>>

\* the items SpecRace stores: one per id, without a description
RacePool == {t \in InstancePool : t.description = None}

\* repository instances over one path whose calls interleave step by step
NextRace ==
    \/ \E i \in InstIds : New(i)
    \/ \E i \in InstIds : \E todo \in RacePool : SaveLoad(i, todo)
    \/ \E i \in InstIds : \E todo \in RacePool : UpdateLoad(i, todo)
    \/ \E i \in InstIds : \E id \in IDs : DeleteLoad(i, id)
    \/ \E i \in InstIds : WriteStep(i)

SpecRace == InitRepo /\ [][NextRace]_vars

\* ------------------------------------------------ actions (two backends)
\* a JSON repository over file and an XML repository over twin receive the
\* same calls; last keeps what each of the two returned or raised
Both(op, id, todo, j, x) ==
    /\ insts # {}
    /\ file' = j.file
    /\ twin' = x.file
    /\ last' = [op |-> op, id |-> id, todo |-> todo,
                json |-> [res |-> j.res, val |-> j.val],
                xml |-> [res |-> x.res, val |-> x.val]]
    /\ UNCHANGED <<clock, item, kind, insts, made, pending, cli>>

\* JSONTodoRepository(path) and XMLTodoRepository(other path)
BothNew ==
    /\ insts = {}
    /\ insts' = {Min(InstIds)}
    /\ file' = ensure_file_exists(file)
    /\ twin' = ensure_file_exists(twin)
    /\ last' = [op |-> "new"]
    /\ UNCHANGED <<clock, item, kind, made, pending, cli>>

BothSave(todo) ==
    \E j \in {save("json", file, todo)} : \E x \in {save("xml", twin, todo)} :
        Both("save", todo.id, Some(todo), j, x)
BothUpdate(todo) ==
    \E j \in {update("json", file, todo)} : \E x \in {update("xml", twin, todo)} :
        Both("update", todo.id, Some(todo), j, x)
BothDelete(id) ==
    \E j \in {delete("json", file, id)} : \E x \in {delete("xml", twin, id)} :
        Both("delete", id, None, j, x)
BothFindById(id) ==
    \E j \in {find_by_id("json", file, id, clock)} :
    \E x \in {find_by_id("xml", twin, id, clock)} :
        Both("find_by_id", id, None, j, x)
BothFindAll ==
    \E j \in {find_all("json", file, clock)} : \E x \in {find_all("xml", twin, clock)} :
        Both("find_all", 0, None, j, x)
BothExists(id) ==
    \E j \in {exists("json", file, id)} : \E x \in {exists("xml", twin, id)} :
        Both("exists", id, None, j, x)

\* two fresh paths, one for each backend
InitBoth ==
    /\ clock = 0
    /\ item = None
    /\ kind = "json"
    /\ file = [st |-> "missing", recs |-> <<>>]
    /\ insts = {}
    /\ made = {}
    /\ pending = {}
    /\ twin = [st |-> "missing", recs |-> <<>>]
    /\ cli = [pc |-> "off"]
    /\ last = [op |-> "init"]

NextBoth ==
    \/ BothNew
    \/ \E todo \in OrderPool : BothSave(todo)
    \/ \E todo \in OrderPool : BothUpdate(todo)
    \/ \E id \in IDs : BothDelete(id)
    \/ \E id \in IDs : BothFindById(id)
    \/ BothFindAll
    \/ \E id \in IDs : BothExists(id)

SpecBoth == InitBoth /\ [][NextBoth]_vars

\* ------------------------------------------------------------- the CLI
\* TodoCLI.run and its handlers.  cli.pc is where run() is: "off" before it
\* is called, "menu" at the menu prompt, "add" in the loop of add_todo,
\* "stopped" after run() has returned and "raised" after an exception has
\* left it.  A handler's result is TRUE or FALSE, as returned, or None when
\* add_todo goes round its loop again.

\* add_todo: ValidationError is displayed and the loop continues; success,
\* TodoDomainError and any other Exception return True
add_todo_result_once(res) == Some(TRUE)
add_todo_result(res) == IF res = "ValidationError" THEN None ELSE Some(TRUE)
\* list_todos, update_todo: every outcome returns True
list_todos_result(res) == Some(TRUE)
update_todo_result(res) == Some(TRUE)

\* run(): `if not self._handle_menu_choice(choice): break`, or the handler
\* still prompting
run_loop(returned) ==
    IF returned = None THEN "add" ELSE IF Get(returned) THEN "menu" ELSE "stopped"

\* add_todo passes `description if description else None`
description_or_none(description) ==
    IF StrLen(description) = 0 THEN None ELSE Some(description)

\* update_todo after the stored todo was found: the answers, empty ones
\* standing for the current value, and the arguments of service.update_todo,
\* None for a value that equals the current one
cli_update_existing(k, f, existing_todo, title, description, due_date, tR, tV, tC) ==
    LET t == IF StrLen(strip(title)) = 0 THEN existing_todo.title ELSE strip(title)
        d == IF StrLen(strip(description)) = 0 THEN existing_todo.description
             ELSE Some(strip(description))
        u == IF due_date = None THEN existing_todo.due_date ELSE due_date
    IN  update_todo(k, f, existing_todo.id,
                    IF t # existing_todo.title THEN Some(t) ELSE None,
                    IF d # existing_todo.description THEN d ELSE None,
                    IF u # existing_todo.due_date THEN u ELSE None, tR, tV, tC)

cli_update_found(k, f, found, title, description, due_date, tR, tV, tC) ==
    IF found.res # "ok" THEN ServiceOutcome(found.res, {}, None, f, <<>>)
    ELSE IF found.val = None THEN ServiceOutcome("not found", {}, None, f, <<>>)
    ELSE Get({cli_update_existing(k, f, existing_todo, title, description, due_date,
                                  tR, tV, tC) : existing_todo \in found.val})

\* TodoCLI.update_todo: id_input is None for an empty or malformed id
cli_update_todo(k, f, id_input, title, description, due_date, tR, tV, tC) ==
    IF id_input = None THEN ServiceOutcome("no id", {}, None, f, <<>>)
    ELSE Get({cli_update_found(k, f, found, title, description, due_date, tR, tV, tC) :
                 found \in {find_by_id(k, f, Get(id_input), tR)}})

\* the answers a user gives
CliTitles == {Text(1), Text(0)}
CliDescriptions == {Text(0), Text(1)}
CliIdInputs == {None} \cup {Some(i) : i \in IDs}
CliUpdateTitles == {Text(0), Str(1, 2, 1)}
CliHandlers ==
    {"cli.add_todo", "cli.list_todos", "cli.update_todo", "cli.complete_todo",
     "cli.delete_todo", "cli._exit_application"}

\* a handler has come to an end, or add_todo to the end of a round
Handled(op, id, res, returned, f) ==
    /\ file' = f
    /\ cli' = [pc |-> run_loop(returned)]
    /\ last' = [op |-> op, id |-> id, res |-> res, returned |-> returned,
                before |-> file, again |-> cli.pc = "add" /\ last.op = "cli.add_todo"]

\* main(): cli.run() on a service over the repository
CliRun ==
    /\ cli.pc = "off"
    /\ insts # {}
    /\ cli' = [pc |-> "menu"]
    /\ last' = [op |-> "cli.run"]
    /\ UNCHANGED <<clock, item, kind, file, insts, made, pending, twin>>

\* choice 1: add_todo starts to prompt
CliChooseAdd ==
    /\ cli.pc = "menu"
    /\ cli' = [pc |-> "add"]
    /\ last' = [op |-> "cli.choice"]
    /\ UNCHANGED <<clock, item, kind, file, insts, made, pending, twin>>

\* one round of the loop of add_todo
CliAddTodo(title, description, due_date) ==
    /\ cli.pc = "add"
    /\ made # IDs
    /\ \E tC \in clock..MaxClock :
       \E r \in {create_todo(kind, file, title, description_or_none(description), due_date,
                             uuid4(made), clock, tC)} :
           /\ Handled("cli.add_todo", 0, r.res, add_todo_result(r.res), r.file)
           /\ made' = IF r.val # None THEN made \cup {Get(r.val).id} ELSE made
           /\ clock' = tC
    /\ UNCHANGED <<item, kind, insts, pending, twin>>

\* the input ends while add_todo prompts: EOFError, caught as Exception
CliAddInputEnds ==
    /\ cli.pc = "add"
    /\ Handled("cli.add_todo", 0, "EOFError", add_todo_result("EOFError"), file)
    /\ UNCHANGED <<clock, item, kind, insts, made, pending, twin>>

\* choice 2
CliListTodos ==
    /\ cli.pc = "menu"
    /\ \E r \in {find_all(kind, file, clock)} :
           Handled("cli.list_todos", 0, r.res, list_todos_result(r.res), r.file)
    /\ UNCHANGED <<clock, item, kind, insts, made, pending, twin>>

\* choice 3
CliUpdateTodo(id_input, title) ==
    /\ cli.pc = "menu"
    /\ \E tV \in clock..MaxClock : \E tC \in tV..MaxClock :
       \E r \in {cli_update_todo(kind, file, id_input, title, Text(0), None,
                                 clock, tV, tC)} :
           /\ r.res \in {"ok", "ValidationError"} \/ tV = clock
           /\ r.writes # <<>> \/ tC = tV
           /\ Handled("cli.update_todo", IF id_input = None THEN 0 ELSE Get(id_input),
                      r.res, update_todo_result(r.res), r.file)
           /\ clock' = tC
    /\ UNCHANGED <<item, kind, insts, made, pending, twin>>

\* choices 4 and 5: the handlers print a notice and return True.  They do not
\* ask for an id; todo_id is the todo the user chose the option for.
CliCompleteTodo(todo_id) ==
    /\ cli.pc = "menu"
    /\ Handled("cli.complete_todo", todo_id, "ok", Some(TRUE), file)
    /\ UNCHANGED <<clock, item, kind, insts, made, pending, twin>>

CliDeleteTodo(todo_id) ==
    /\ cli.pc = "menu"
    /\ Handled("cli.delete_todo", todo_id, "ok", Some(TRUE), file)
    /\ UNCHANGED <<clock, item, kind, insts, made, pending, twin>>

\* choice 6
CliExit ==
    /\ cli.pc = "menu"
    /\ Handled("cli._exit_application", 0, "ok", Some(FALSE), file)
    /\ UNCHANGED <<clock, item, kind, insts, made, pending, twin>>

\* Ctrl-C at a prompt: KeyboardInterrupt is no Exception, passes the handlers
\* and is caught by run()
CliInterrupt ==
    /\ cli.pc \in {"menu", "add"}
    /\ cli' = [pc |-> "stopped"]
    /\ last' = [op |-> "KeyboardInterrupt", id |-> 0, res |-> "KeyboardInterrupt",
                returned |-> None, before |-> file, again |-> FALSE]
    /\ UNCHANGED <<clock, item, kind, file, insts, made, pending, twin>>

\* the input ends at the menu prompt: EOFError leaves _get_menu_choice, which
\* no try block of run() covers but that for KeyboardInterrupt
CliMenuInputEnds ==
    /\ cli.pc = "menu"
    /\ cli' = [pc |-> "raised"]
    /\ last' = [op |-> "cli._get_menu_choice", id |-> 0, res |-> "EOFError",
                returned |-> None, before |-> file, again |-> FALSE]
    /\ UNCHANGED <<clock, item, kind, file, insts, made, pending, twin>>

\* the file the application is started over: none, one that is not a
\* document, or one whose only record lacks its id
CliFiles(k) ==
    {[st |-> "missing", recs |-> <<>>], [st |-> "garbage", recs |-> <<>>],
     Doc(<<Without(to_record(k, ForeignItem(Min(IDs))), "id")>>)}

InitCli ==
    /\ clock = 0
    /\ item = None
    /\ kind \in {"json", "xml"}
    /\ file \in CliFiles(kind)
    /\ insts = {}
    /\ made = {}
    /\ pending = {}
    /\ twin = [st |-> "missing", recs |-> <<>>]
    /\ cli = [pc |-> "off"]
    /\ last = [op |-> "init"]

NextCli ==
    \/ Tick
    \/ New(Min(InstIds))
    \/ CliRun
    \/ CliChooseAdd
    \/ \E t \in CliTitles : \E d \in CliDescriptions : \E u \in EditDueDates :
           CliAddTodo(t, d, u)
    \/ CliAddInputEnds
    \/ CliListTodos
    \/ \E i \in CliIdInputs : \E t \in CliUpdateTitles : CliUpdateTodo(i, t)
    \/ \E id \in IDs : CliCompleteTodo(id)
    \/ \E id \in IDs : CliDeleteTodo(id)
    \/ CliExit
    \/ CliInterrupt
    \/ CliMenuInputEnds

SpecCli == InitCli /\ [][NextCli]_vars

\* ------------------------------------------------------- claims (entity)
DueDateMessage == "Due date cannot be in the past"
TitleMessages ==
    {"title: string_too_short", "title: string_too_long",
     "Title cannot be empty or whitespace only"}

\* C7: a failing update_details leaves every field of the entity, updated_at
\* included, exactly as before the call.
C7_FailedUpdateChangesNothing ==
    [][(last'.op = "update_details" /\ last'.errors # {}) => item' = item]_vars

\* C8: updated_at >= created_at for every TodoItem, however it was constructed
\* and whatever was called on it since.
C8_UpdatedNotBeforeCreated ==
    item # None => Get(item).updated_at >= Get(item).created_at

\* the title a call supplies ({} when it supplies none)
SuppliedTitle ==
    IF last.op = "TodoItem" THEN Some(last.data.title)
    ELSE IF last.op = "update_details" /\ HasKw(last.kwargs, "title")
    THEN KwArgOf(last.kwargs, "title").s
    ELSE None

\* C9: construction and update_details accept a title if and only if its
\* length after trimming is between 1 and 200, and then store the trimmed text.
C9_TitleAcceptedIffTrimmedLengthInRange ==
    SuppliedTitle # None =>
        LET t == Get(SuppliedTitle)
            accepted == last.errors \cap TitleMessages = {}
        IN  /\ accepted <=> StrLen(strip(t)) \in TitleMinLength..TitleMaxLength
            /\ last.errors = {} => Get(item).title = strip(t)

\* the due date a call supplies, as a one-element set ({} when it supplies none)
SuppliedDueDate ==
    IF last.op = "TodoItem" THEN {last.data.due_date}
    ELSE IF last.op = "update_details" /\ HasKw(last.kwargs, "due_date")
    THEN {KwArgOf(last.kwargs, "due_date").t}
    ELSE {}

\* C10: a supplied due date is rejected exactly when it is strictly earlier than
\* a clock value the validator read during the call; a due date equal to or
\* later than the clock is accepted, an absent one always; an accepted due date
\* of a successful call is the one the entity then carries.
C10_DueDateRejectedIffBeforeClock ==
    \A d \in SuppliedDueDate :
        /\ (DueDateMessage \in last.errors) <=>
               (d # None /\ \E now \in last.reads : Get(d) < now)
        /\ last.errors = {} => Get(item).due_date = d

\* C10 witness: update_details was given a due date equal to the clock it read,
\* and accepted it
C10_Witness ==
    /\ last.op = "update_details"
    /\ last.errors = {}
    /\ \E d \in SuppliedDueDate : d # None /\ last.reads = {Get(d)}
    /\ Get(item).due_date = Some(clock)

\* C12: id and created_at of an entity never change: every mark_completed and
\* update_details call, failing or not, leaves them as construction set them.
C12_IdAndCreatedAtNeverChange ==
    [][item # None =>
          /\ item' # None
          /\ Get(item').id = Get(item).id
          /\ Get(item').created_at = Get(item).created_at]_vars

\* C12 witness: mark_completed ran on an entity created at an earlier clock value
C12_Witness ==
    /\ last.op = "mark_completed"
    /\ Get(item).updated_at > Get(item).created_at

\* C13: a successful update_details replaces exactly the supplied fields among
\* title (stored trimmed), description and due_date, a supplied None clearing
\* description or due_date; every field not supplied, completed included, keeps
\* its value; updated_at becomes the clock at the end of the call.
C13_UpdateReplacesExactlySupplied ==
    [][(last'.op = "update_details" /\ last'.errors = {}) =>
          LET old == Get(item)
              new == Get(item')
              kw == last'.kwargs
          IN  /\ new.title = IF HasKw(kw, "title")
                             THEN strip(Get(KwArgOf(kw, "title").s)) ELSE old.title
              /\ new.description = IF HasKw(kw, "description")
                                   THEN KwArgOf(kw, "description").s ELSE old.description
              /\ new.due_date = IF HasKw(kw, "due_date")
                                THEN KwArgOf(kw, "due_date").t ELSE old.due_date
              /\ new.completed = old.completed
              /\ new.updated_at = clock']_vars

\* C13 witness: a call that supplied description=None and due_date=None, on an
\* entity created earlier, left both cleared and a later updated_at
C13_Witness ==
    /\ last.op = "update_details"
    /\ last.errors = {}
    /\ HasKw(last.kwargs, "description") /\ KwArgOf(last.kwargs, "description").s = None
    /\ HasKw(last.kwargs, "due_date") /\ KwArgOf(last.kwargs, "due_date").t = None
    /\ Get(item).description = None /\ Get(item).due_date = None
    /\ Get(item).updated_at > Get(item).created_at

\* C14 as claimed: mark_completed leaves completed true, and a second call
\* right after a first sets updated_at strictly greater than the first left it.
C14_SecondCompletionStrictlyLater ==
    last.op = "mark_completed" =>
        /\ last.errors = {}
        /\ Get(item).completed
        /\ last.again => Get(item).updated_at > last.before.updated_at

\* C14 amended: mark_completed never fails and leaves completed true; a second
\* call sets updated_at to the clock read at that call, which is not earlier
\* than the value the first call left and is later only when the clock advanced.
C14_CompletionStampsTheClock ==
    last.op = "mark_completed" =>
        /\ last.errors = {}
        /\ Get(item).completed
        /\ Get(item).updated_at = clock
        /\ last.again =>
              /\ last.before.completed
              /\ Get(item).updated_at >= last.before.updated_at
              /\ [Get(item) EXCEPT !.updated_at = 0] = [last.before EXCEPT !.updated_at = 0]

\* C14 witness: a second mark_completed at a later clock value
C14_Witness ==
    /\ last.op = "mark_completed"
    /\ last.again
    /\ Get(item).completed
    /\ Get(item).updated_at > last.before.updated_at

\* C15: a successful construction that does not supply updated_at gives
\* updated_at = created_at (the supplied created_at when there is one),
\* completed false unless supplied, and, when no id is supplied, an id that no
\* item constructed before carries.
C15_ConstructionDefaults ==
    (last.op = "TodoItem" /\ last.errors = {} /\ last.data.updated_at = None) =>
        LET t == Get(item)
            d == last.data
        IN  /\ t.updated_at = t.created_at
            /\ d.created_at # None => t.created_at = Get(d.created_at)
            /\ t.completed = (d.completed = Some(TRUE))
            /\ IF d.id = None THEN t.id \notin last.others ELSE t.id = Get(d.id)

\* C15 witness: a second item constructed with created_at but neither id nor
\* updated_at, at a clock value other than that created_at
C15_Witness ==
    /\ last.op = "TodoItem"
    /\ last.errors = {}
    /\ last.data.updated_at = None
    /\ last.data.id = None
    /\ last.data.created_at # None
    /\ last.others # {}
    /\ Get(item).created_at # clock

\* --------------------------------------------------- claims (repository)
\* the id a stored record carries
RecordId(k, rec) == IF k = "json" THEN UUID(rec.id) ELSE UUID(Get(rec.id))
\* the positions in a sequence of records of those carrying the id
Positions(k, recs, id) == {j \in 1..Len(recs) : RecordId(k, recs[j]) = id}
\* the ids of a sequence of items, in order
ItemIds(items) == [j \in 1..Len(items) |-> items[j].id]

\* C1: save(t) followed by find_by_id(t.id) returns an item equal to t in all
\* seven fields, in both backends.
C1_SaveThenFindReturnsEqualItem ==
    (last.op = "save" /\ last.res = "ok") =>
        LET r == find_by_id(kind, file, last.id, clock) IN
        r.res = "ok" /\ r.val = last.todo

\* C2: a task saved with a due date not earlier than the clock at save time
\* stays readable when the clock passes the due date: find_all and find_by_id
\* do not raise and still return it.
C2_StoredTaskStaysReadable ==
    /\ last.op = "find_all" => last.res = "ok" /\ Len(last.val) = Len(file.recs)
    /\ last.op = "find_by_id" =>
          /\ last.res = "ok"
          /\ Positions(kind, file.recs, last.id) # {} => last.val # None

\* C3: save is an upsert by id.  It never raises not-found; when the id is in
\* the file its record is replaced where it stands, the file then holds exactly
\* one record with that id, carrying the saved item's values, and every other
\* record is unchanged; when the id is not in the file the record is appended
\* at the end.  find_all lists the items in that order.
C3_SaveIsUpsert ==
    last.op = "save" =>
        LET b == last.before.recs
            a == file.recs
            t == Get(last.todo)
            at == Positions(kind, b, t.id)
            all == find_all(kind, file, clock)
        IN  /\ last.res = "ok"
            /\ Cardinality(Positions(kind, a, t.id)) = 1
            /\ all.res = "ok" => ItemIds(all.val) = [j \in 1..Len(a) |-> RecordId(kind, a[j])]
            /\ IF at # {}
               THEN /\ Len(a) = Len(b)
                    /\ Positions(kind, a, t.id) = at
                    /\ \A j \in 1..Len(a) :
                          a[j] = IF j \in at THEN to_record(kind, t) ELSE b[j]
               ELSE /\ Len(a) = Len(b) + 1
                    /\ a[Len(a)] = to_record(kind, t)
                    /\ \A j \in 1..Len(b) : a[j] = b[j]

\* C3 witness: a save replaced the first of two records by different values
C3_Witness ==
    /\ last.op = "save"
    /\ Len(last.before.recs) = NumIds
    /\ Positions(kind, last.before.recs, last.id) = {1}
    /\ file.recs[1] # last.before.recs[1]
    /\ Len(file.recs) = NumIds
    /\ find_all(kind, file, clock).res = "ok"

\* C4: update of an id that is not in the file raises not-found and leaves the
\* file as it was (nothing is inserted); update of an id that is in the file
\* replaces exactly that record, in place.
C4_UpdateNeverInserts ==
    last.op = "update" =>
        LET b == last.before.recs
            a == file.recs
            t == Get(last.todo)
            at == Positions(kind, b, t.id)
        IN  IF at = {}
            THEN last.res = "TodoNotFoundError" /\ file = last.before
            ELSE /\ last.res = "ok"
                 /\ Len(a) = Len(b)
                 /\ \A j \in 1..Len(a) :
                       a[j] = IF j \in at THEN to_record(kind, t) ELSE b[j]

\* C4 witness: an update of an id missing from a non-empty file raised not-found
C4_Witness ==
    /\ last.op = "update"
    /\ last.res = "TodoNotFoundError"
    /\ Len(file.recs) >= 1
    /\ Positions(kind, file.recs, last.id) = {}

\* C5: delete of an id that is not in the file raises not-found and leaves the
\* file as it was; delete of an id that is in the file removes exactly that
\* record, the others keep their order, and afterwards exists(id) is false and
\* find_by_id(id) returns None.
C5_DeleteRemovesExactlyOne ==
    last.op = "delete" =>
        LET b == last.before.recs
            a == file.recs
            at == Positions(kind, b, last.id)
        IN  IF at = {}
            THEN last.res = "TodoNotFoundError" /\ file = last.before
            ELSE /\ last.res = "ok"
                 /\ Len(a) = Len(b) - 1
                 /\ \A j \in 1..Len(a) : a[j] = IF j < Min(at) THEN b[j] ELSE b[j + 1]
                 /\ exists(kind, file, last.id).res = "ok"
                 /\ exists(kind, file, last.id).val = FALSE
                 /\ find_by_id(kind, file, last.id, clock).res = "ok"
                 /\ find_by_id(kind, file, last.id, clock).val = None

\* C5 witness: a delete removed the first record of a full file
C5_Witness ==
    /\ last.op = "delete"
    /\ last.res = "ok"
    /\ Len(last.before.recs) = NumIds
    /\ Positions(kind, last.before.recs, last.id) = {1}

\* C6: the first read after a completed save, update or delete, made through
\* another instance over the same path (also one constructed after the
\* write), reflects the write: exists tells whether the written id is there,
\* find_by_id returns what the written record converts to (nothing after a
\* delete), and find_all lists it (not, after a delete).
C6_ReadsThroughOtherInstanceSeeWrite ==
    (/\ last.op \in {"exists", "find_by_id", "find_all"}
     /\ last.prev # None
     /\ Get(last.prev).res = "ok"
     /\ Get(last.prev).inst # last.inst) =>
        LET w == Get(last.prev)
            written == to_todo(kind, to_record(kind, Get(w.todo)), clock)
        IN  /\ (last.op = "exists" /\ last.id = w.id) =>
                   last.res = "ok" /\ last.val = (w.op # "delete")
            /\ (last.op = "find_by_id" /\ last.id = w.id) =>
                   IF w.op = "delete" THEN last.res = "ok" /\ last.val = None
                   ELSE last.res = written.res /\ last.val = written.val
            /\ (last.op = "find_all" /\ last.res = "ok") =>
                   IF w.op = "delete"
                   THEN \A j \in 1..Len(last.val) : last.val[j].id # w.id
                   ELSE \E j \in 1..Len(last.val) : Some(last.val[j]) = written.val

\* C6 witness: find_all through an instance constructed after a save made
\* through another instance returned the saved item
C6_Witness ==
    /\ last.op = "find_all"
    /\ last.fresh
    /\ last.prev # None
    /\ Get(last.prev).op = "save"
    /\ Get(last.prev).inst # last.inst
    /\ \E j \in 1..Len(last.val) : Some(last.val[j]) = Get(last.prev).todo

\* ------------------------------------------------------ claims (service)
\* the validation rules the arguments of a call violate at clock value now
ViolatedRules(args, now) ==
    {"title not empty" : x \in {y \in args.title : StrLen(strip(y)) = 0}}
    \cup {"title length" : x \in {y \in args.title : StrLen(y) > TitleMaxLength}}
    \cup {"description length" :
             x \in {y \in args.description : StrLen(y) > DescriptionMaxLength}}
    \cup {"due date" : x \in {y \in args.due_date : y < now}}

\* C11: a validation failure carries one message per violated rule, also when
\* two rules are violated on the same field.
C11_OneMessagePerViolatedRule ==
    (last.op = "create_todo" /\ last.res = "ValidationError") =>
        Cardinality(last.messages) = Cardinality(ViolatedRules(last.args, last.now))

\* C16: constructing a repository leaves an existing file that is not empty as
\* it is; a missing or zero-length file becomes an empty collection, and
\* find_all then returns the empty sequence.
C16_ConstructionInitializesOnlyEmpty ==
    last.op = "new" =>
        IF last.before.st \in {"missing", "zero"}
        THEN /\ file = Doc(<<>>)
             /\ find_all(kind, file, clock).res = "ok"
             /\ find_all(kind, file, clock).val = <<>>
        ELSE file = last.before

\* C16 witness: an instance was constructed over a file that holds records
C16_Witness ==
    /\ last.op = "new"
    /\ last.before.st = "doc"
    /\ Len(last.before.recs) >= 1
    /\ Len(file.recs) >= 1

\* C18: over a file of valid JSON that is not an array, find_all returns the
\* empty sequence and does not raise; over a file that is not valid JSON,
\* find_all and every other operation raise the format error (a
\* TodoDomainError), return nothing and leave the file as it is.
C18_JsonShapeHandling ==
    (kind = "json" /\ last.op \in {"save", "update", "delete", "find_by_id", "find_all",
                                   "exists"}) =>
        /\ (last.before.st = "object" /\ last.op = "find_all") =>
               last.res = "ok" /\ last.val = <<>>
        /\ last.before.st = "garbage" =>
               last.res = "TodoDomainError" /\ last.val = None /\ file = last.before

\* C18 witness: find_all over a JSON file holding an object returned the empty
\* sequence
C18_Witness ==
    /\ kind = "json"
    /\ last.op = "find_all"
    /\ last.before.st = "object"
    /\ last.res = "ok"
    /\ last.val = <<>>

\* the text a stored record holds for a field ({} when the key or element is
\* missing, the value is null or the element has no text)
StoredText(k, rec, f) ==
    IF f \notin DOMAIN rec THEN None
    ELSE IF k = "xml" \/ f \in {"description", "due_date"} THEN rec[f]
    ELSE Some(rec[f])

\* the required fields a stored record lacks, and its fields with malformed text
LackedFields(k, rec) ==
    {f \in {"id", "title", "completed", "created_at", "updated_at"} :
        StoredText(k, rec, f) = None}
MalformedFields(k, rec) ==
    {f \in {"id"} : StoredText(k, rec, f) # None
                    /\ Get(StoredText(k, rec, f)).uuid = Malformed}
    \cup {f \in {"due_date", "created_at", "updated_at"} :
             StoredText(k, rec, f) # None /\ Get(StoredText(k, rec, f)).iso = Malformed}

\* C19: a stored record that lacks a required field or has a malformed UUID or
\* timestamp makes find_all fail with a conversion error that names the field,
\* returning no list; when no record is so, find_all returns every record, an
\* absent or textless description or due_date read as None.
C19_FlawedRecordFailsNamingField ==
    (last.op = "find_all" /\ last.before.st = "doc") =>
        LET recs == last.before.recs
            flaws == [j \in 1..Len(recs) |->
                         LackedFields(kind, recs[j]) \cup MalformedFields(kind, recs[j])]
            flawed == {j \in 1..Len(recs) : flaws[j] # {}}
        IN  IF flawed # {}
            THEN /\ last.res = "TodoDomainError"
                 /\ last.val = None
                 /\ last.msg # None
                 /\ Get(last.msg).fields = flaws[Min(flawed)]
            ELSE /\ last.res = "ok"
                 /\ Len(last.val) = Len(recs)
                 /\ \A j \in 1..Len(recs) : \A f \in {"description", "due_date"} :
                       StoredText(kind, recs[j], f) = None => last.val[j][f] = None

\* C17: over a readable file, exists(id) returns true if and only if a record
\* with that id is present and never raises; find_by_id(id) returns an item
\* exactly when such a record is present and None, without raising, otherwise.
C17_ExistsIffPresentAndFindAgrees ==
    (last.op \in {"exists", "find_by_id"} /\ last.before.st = "doc") =>
        LET recs == last.before.recs
            present == \E j \in 1..Len(recs) :
                           StoredText(kind, recs[j], "id") = Some(uuid_str(last.id))
        IN  /\ last.res = "ok"
            /\ last.op = "exists" => last.val = present
            /\ last.op = "find_by_id" => (last.val # None <=> present)

\* C20: complete_todo(id) of a stored pending todo returns it marked completed
\* with its other fields as stored and persists it by one repository update;
\* of a stored completed todo it raises ValidationError, and of an id that is
\* not stored TodoNotFoundError, both without a repository write.
C20_CompleteTodoByStoredState ==
    (last.op = "complete_todo" /\ last.before.st = "doc") =>
        LET recs == last.before.recs
            hits == {j \in 1..Len(recs) :
                        StoredText(kind, recs[j], "id") = Some(uuid_str(last.id))}
            stored == recs[Min(hits)]
            done == IF kind = "json" THEN stored.completed
                    ELSE stored.completed = Some(bool_text(TRUE))
        IN  IF hits = {}
            THEN last.res = "TodoNotFoundError" /\ last.writes = <<>> /\ file = last.before
            ELSE IF done
            THEN last.res = "ValidationError" /\ last.writes = <<>> /\ file = last.before
            ELSE /\ last.res = "ok"
                 /\ last.val # None
                 /\ Get(last.val).completed
                 /\ [to_record(kind, Get(last.val))
                        EXCEPT !.completed = stored.completed,
                               !.updated_at = stored.updated_at] = stored
                 /\ last.writes = <<"update">>
                 /\ file = Doc([recs EXCEPT ![Min(hits)] = to_record(kind, Get(last.val))])

\* C30: update_details that supplies only a title or only a description, on an
\* entity whose due_date is earlier than the clock at the call, fails with the
\* due-date validation error and changes nothing; mark_completed on such an
\* entity succeeds.
C30_UpdateRevalidatesStoredDueDate ==
    [][(item # None /\ Get(item).due_date # None
          /\ Get(Get(item).due_date) < clock)
       => /\ (last'.op = "update_details" /\ Len(last'.kwargs) = 1
                 /\ last'.kwargs[1].f \in {"title", "description"})
              => (DueDateMessage \in last'.errors /\ item' = item)
          /\ last'.op = "mark_completed"
              => (last'.errors = {} /\ Get(item').completed)]_vars

C30_Witness ==
    /\ last.op = "update_details"
    /\ Len(last.kwargs) = 1
    /\ last.kwargs[1].f = "title"
    /\ last.errors = {DueDateMessage}
    /\ item # None
    /\ Get(item).due_date # None
    /\ Get(Get(item).due_date) < clock

\* C28: whatever the file holds, a repository operation that fails raises
\* TodoDomainError or TodoNotFoundError; no other exception escapes.
C28_OnlyDomainErrorsEscape ==
    last.op \in {"save", "find_by_id", "find_all", "update", "delete", "exists"}
        => last.res \in {"ok", "TodoDomainError", "TodoNotFoundError"}

\* the ids of the records of a file, in file order
RecordIds(k, recs) == [j \in 1..Len(recs) |-> RecordId(k, recs[j])]

\* C26: from a freshly initialized file, with calls made one at a time, no two
\* records of the file ever have the same id, and find_all returns the
\* surviving records in the order in which their ids were inserted: a save of
\* an id that is not stored puts it at the end, a delete takes the id out, and
\* no other call changes which ids are stored or their order.
C26_UniqueIdsInInsertionOrder ==
    /\ [](/\ \A id \in IDs : Cardinality(Positions(kind, file.recs, id)) <= 1
          /\ last.op = "find_all" =>
                /\ last.res = "ok"
                /\ ItemIds(last.val) = RecordIds(kind, file.recs))
    /\ [][LET b == RecordIds(kind, file.recs)
              a == RecordIds(kind, file'.recs)
              stored == \E j \in 1..Len(b) : b[j] = last'.id
              Other(id) == id # last'.id
          IN  IF last'.op = "save" /\ ~stored THEN a = Append(b, last'.id)
              ELSE IF last'.op = "delete" THEN a = SelectSeq(b, Other)
              ELSE a = b]_vars

\* C26 witness: an id deleted from the head of a full file was saved again and
\* stands at the end
C26_Witness ==
    /\ last.op = "save"
    /\ Len(last.before.recs) = NumIds - 1
    /\ \A j \in 1..Len(last.before.recs) : RecordId(kind, last.before.recs[j]) > last.id
    /\ Len(file.recs) = NumIds
    /\ RecordId(kind, file.recs[NumIds]) = last.id

\* the item that the record of an id in a file stands for ({} when there is
\* no such record), read without regard to the clock
StoredItem(k, f, id) ==
    IF Positions(k, f.recs, id) = {} THEN None
    ELSE to_todo(k, f.recs[Min(Positions(k, f.recs, id))], 0).val

\* C21: update_todo of a stored todo, with data that passes validation,
\* persists and returns an item with the stored id, created_at and completed
\* flag, an updated_at strictly later than the stored one, the supplied
\* values (the title trimmed) for the supplied fields and the stored values
\* for the fields passed as None; a read of the id then returns that item.
C21_UpdateTodoKeepsAndReplaces ==
    (/\ last.op = "update_todo"
     /\ StoredItem(kind, last.before, last.id) # None
     /\ last.res # "ValidationError") =>
        LET stored == Get(StoredItem(kind, last.before, last.id))
            args == last.args
            read == find_by_id(kind, file, last.id, clock)
        IN  /\ last.res = "ok"
            /\ last.val # None
            /\ Get(last.val).id = stored.id
            /\ Get(last.val).created_at = stored.created_at
            /\ Get(last.val).completed = stored.completed
            /\ Get(last.val).updated_at > stored.updated_at
            /\ Get(last.val).title = IF args.title # None THEN strip(Get(args.title))
                                     ELSE stored.title
            /\ Get(last.val).description = IF args.description # None THEN args.description
                                           ELSE stored.description
            /\ Get(last.val).due_date = IF args.due_date # None THEN args.due_date
                                        ELSE stored.due_date
            /\ read.res = "ok"
            /\ read.val = last.val

\* C22: a failing service call leaves storage unchanged.  create_todo, and
\* update_todo of a stored id, with data that violates a validation rule raise
\* ValidationError without a repository write; update_todo and delete_todo of
\* an id that is not stored raise TodoNotFoundError without a repository write.
C22_FailingCallWritesNothing ==
    /\ (last.op = "create_todo" /\ ViolatedRules(last.args, last.now) # {}) =>
           /\ last.res = "ValidationError"
           /\ last.writes = <<>>
           /\ file = last.before
    /\ (/\ last.op = "update_todo"
        /\ StoredItem(kind, last.before, last.id) # None
        /\ \/ last.args.title # None /\ ViolatedRules(last.args, last.now) # {}
           \/ validate_due_date_raises(last.args.due_date, last.now)) =>
           /\ last.res = "ValidationError"
           /\ last.writes = <<>>
           /\ file = last.before
    /\ (/\ last.op \in {"update_todo", "delete_todo"}
        /\ StoredItem(kind, last.before, last.id) = None) =>
           /\ last.res = "TodoNotFoundError"
           /\ last.writes = <<>>
           /\ file = last.before

\* C29: completion is monotonic.  A held TodoItem that is completed is still
\* completed after mark_completed and update_details; a stored todo that is
\* completed is, after any service operation, either still stored as completed,
\* and read back as completed, or removed by delete_todo of its id.
C29_CompletionIsMonotonic ==
    [][/\ (/\ item # None
           /\ Get(item).completed
           /\ last'.op \in {"mark_completed", "update_details"}) =>
               /\ item' # None
               /\ Get(item').id = Get(item).id
               /\ Get(item').completed
       /\ \A id \in IDs :
              (\E it \in StoredItem(kind, file, id) : it.completed) =>
                  \/ /\ \E it \in StoredItem(kind, file', id) : it.completed
                     /\ \A it \in find_by_id(kind, file', id, clock').val : it.completed
                  \/ /\ StoredItem(kind, file', id) = None
                     /\ last'.op = "delete_todo"
                     /\ last'.id = id
                     /\ last'.res = "ok"]_vars

\* update_todo has given a completed stored todo a new title, while a caller
\* holds that todo, completed as well
C29_Witness ==
    /\ last.op = "update_todo"
    /\ last.res = "ok"
    /\ last.args.title # None
    /\ \E it \in StoredItem(kind, last.before, last.id) : it.completed
    /\ \E it \in StoredItem(kind, file, last.id) : it.completed
    /\ \E it \in item : it.id = last.id /\ it.completed

\* two saves of distinct ids that the file does not hold, through two
\* instances, have returned one after the other, each having loaded the same
\* file before either wrote
C25_TwoSavesRaced ==
    /\ last.op = "save"
    /\ last.res = "ok"
    /\ last.prev # None
    /\ \E q \in last.prev :
           /\ q.op = "save"
           /\ q.inst # last.inst
           /\ q.id # last.id
           /\ q.loaded = last.loaded
           /\ \A j \in 1..Len(last.loaded.recs) :
                  RecordId(kind, last.loaded.recs[j]) \notin {q.id, last.id}

\* C25: writes are not atomic across instances.  When two saves of distinct new
\* ids through two instances over one path both load before either writes,
\* both return successfully and the file then holds the loaded records and the
\* record of the save that wrote last, not the record of the other save.
C25_RacingSavesLoseOneRecord ==
    C25_TwoSavesRaced =>
        /\ Len(file.recs) = Len(last.loaded.recs) + 1
        /\ SubSeq(file.recs, 1, Len(last.loaded.recs)) = last.loaded.recs
        /\ RecordId(kind, file.recs[Len(file.recs)]) = last.id
        /\ \A j \in 1..Len(file.recs) :
               \A q \in last.prev : RecordId(kind, file.recs[j]) # q.id

\* the two racing saves have returned and the file holds one record
C25_Witness ==
    /\ C25_TwoSavesRaced
    /\ pending = {}
    /\ Len(file.recs) = 1

\* C27: the JSON and the XML repository are observationally equivalent.  Of
\* each call made on both, starting from two fresh repositories, the two
\* results are the same: the same items in the same order, or the same kind of
\* error.
C27_BackendsReturnTheSame ==
    last.op \in {"save", "update", "delete", "find_by_id", "find_all", "exists"} =>
        /\ last.json.res = last.xml.res
        /\ last.json.val = last.xml.val

\* C23: CLI workflows act on storage.  After the complete-todo workflow for
\* the id of a stored pending todo that todo is stored as completed; after the
\* delete-todo workflow for the id of a stored todo it is no longer stored and
\* find_all does not return it.
C23_CliWorkflowsActOnStorage ==
    /\ (/\ last.op = "cli.complete_todo"
        /\ \A j \in 1..Len(last.before.recs) : "id" \in DOMAIN last.before.recs[j]
        /\ \E it \in StoredItem(kind, last.before, last.id) : ~it.completed) =>
           \E it \in StoredItem(kind, file, last.id) : it.completed
    /\ (/\ last.op = "cli.delete_todo"
        /\ \A j \in 1..Len(last.before.recs) : "id" \in DOMAIN last.before.recs[j]
        /\ StoredItem(kind, last.before, last.id) # None) =>
           /\ StoredItem(kind, file, last.id) = None
           /\ \A r \in {find_all(kind, file, clock)} :
                  r.res = "ok" => \A j \in 1..Len(r.val) : r.val[j].id # last.id

\* what every step of the CLI keeps to: after run() has ended nothing more
\* happens; only the exit handler returns False; add_todo goes round its loop
\* again after a ValidationError and returns True otherwise; every other
\* handler returns True, whatever the outcome, and the menu follows
C24_Handlers ==
    /\ cli.pc \in {"stopped", "raised"} => cli' = cli
    /\ last'.op \in CliHandlers =>
          /\ last'.returned = Some(FALSE) <=> last'.op = "cli._exit_application"
          /\ (last'.op = "cli.add_todo" /\ last'.res = "ValidationError") =>
                 last'.returned = None /\ cli'.pc = "add"
          /\ (last'.op # "cli._exit_application"
              /\ ~(last'.op = "cli.add_todo" /\ last'.res = "ValidationError")) =>
                 last'.returned = Some(TRUE) /\ cli'.pc = "menu"

\* run() has ended in this step
C24_RunEnds == cli.pc \in {"menu", "add"} /\ cli'.pc \notin {"menu", "add"}

====
